---- MODULE Spec2Model ----
(***************************************************************************)
(* A model of the casync archive encoder (src/caencoder.c): the CaEncoder  *)
(* object, its traversal stack of CaEncoderNode, the step/get_data state   *)
(* machine and the record builders, run against a small POSIX file system. *)
(*                                                                         *)
(* Numbers are naturals below 2^31.  A uid_t/gid_t, which must be able to  *)
(* hold UINT32_MAX, is kept as its two 16-bit halves [hi, lo].  Byte       *)
(* strings (names, file contents, chunks) are sequences of 0..255.         *)
(***************************************************************************)
EXTENDS Integers, Sequences, FiniteSets, TLC

(***************************************************************************)
(* Bounds of the model.                                                    *)
(***************************************************************************)
\* how often ca_encoder_set_feature_flags is called in one behaviour
MaxSetFlags == 1
\* how many failed ca_encoder_step / ca_encoder_get_data calls a caller sits
\* through before it gives the encoder up
MaxErrors == 2

(***************************************************************************)
(* Program constants.                                                      *)
(***************************************************************************)
\* def.h: capacity of CaEncoder.nodes[] (scaled down)
NODES_MAX == 3
\* def.h: largest payload chunk (scaled down)
BUFFER_SIZE == 200

\* <sys/stat.h>
S_IFMT   == 61440
S_IFSOCK == 49152
S_IFLNK  == 40960
S_IFREG  == 32768
S_IFBLK  == 24576
S_IFDIR  == 16384
S_IFCHR  == 8192
S_IFIFO  == 4096

\* <errno.h>
E2BIG           == 7
EIO             == 5
EACCES          == 13
EBUSY           == 16
ENOTDIR         == 20
EINVAL          == 22
ENOTTY          == 25
EUNATCH         == 49
EBADFD          == 77
EILSEQ          == 84
EPROTONOSUPPORT == 93
EOPNOTSUPP      == 95

\* caencoder.h: what ca_encoder_step returns
CA_ENCODER_FINISHED  == 0
CA_ENCODER_NEXT_FILE == 1
CA_ENCODER_DATA      == 2

\* CaEncoderState
CA_ENCODER_INIT       == "INIT"
CA_ENCODER_HELLO      == "HELLO"
CA_ENCODER_ENTRY      == "ENTRY"
CA_ENCODER_POST_CHILD == "POST_CHILD"
CA_ENCODER_GOODBYE    == "GOODBYE"
CA_ENCODER_EOF        == "EOF"

\* caformat.h: record types (the registry's 64-bit magic numbers, as tags)
CA_FORMAT_HELLO   == 101
CA_FORMAT_ENTRY   == 102
CA_FORMAT_PAYLOAD == 103
CA_FORMAT_SYMLINK == 104
CA_FORMAT_DEVICE  == 105
CA_FORMAT_GOODBYE == 106
CA_FORMAT_HELLO_UUID_PART2 == 107

\* caformat.h: feature flags, as a set of flag names; FlagBit gives the bit
WITH_UID_GID_16BIT == "UID_GID_16BIT"
WITH_UID_GID_32BIT == "UID_GID_32BIT"
WITH_TIMES_NSEC    == "TIMES_NSEC"
WITH_TIMES_USEC    == "TIMES_USEC"
WITH_TIMES_SEC     == "TIMES_SEC"
WITH_TIMES_2SEC    == "TIMES_2SEC"
WITH_PERMISSIONS   == "PERMISSIONS"
WITH_READONLY      == "READONLY"
WITH_SYMLINKS      == "SYMLINKS"
WITH_DEVICE_NODES  == "DEVICE_NODES"
WITH_FIFOS         == "FIFOS"
WITH_SOCKETS       == "SOCKETS"
\* stands for any bit outside CA_FORMAT_FEATURE_FLAGS_MAX
UNKNOWN_FLAG       == "UNKNOWN"

CA_FORMAT_FEATURE_FLAGS_MAX ==
    { WITH_UID_GID_16BIT, WITH_UID_GID_32BIT, WITH_TIMES_NSEC, WITH_TIMES_USEC,
      WITH_TIMES_SEC, WITH_TIMES_2SEC, WITH_PERMISSIONS, WITH_READONLY,
      WITH_SYMLINKS, WITH_DEVICE_NODES, WITH_FIFOS, WITH_SOCKETS }

CA_FORMAT_WITH_BEST ==
    { WITH_UID_GID_32BIT, WITH_TIMES_NSEC, WITH_PERMISSIONS, WITH_SYMLINKS,
      WITH_DEVICE_NODES, WITH_FIFOS, WITH_SOCKETS }

FlagBit(f) ==
    CASE f = WITH_UID_GID_16BIT -> 1
      [] f = WITH_UID_GID_32BIT -> 2
      [] f = WITH_TIMES_NSEC    -> 4
      [] f = WITH_TIMES_USEC    -> 8
      [] f = WITH_TIMES_SEC     -> 16
      [] f = WITH_TIMES_2SEC    -> 32
      [] f = WITH_PERMISSIONS   -> 64
      [] f = WITH_READONLY      -> 128
      [] f = WITH_SYMLINKS      -> 256
      [] f = WITH_DEVICE_NODES  -> 512
      [] f = WITH_FIFOS         -> 1024
      [] f = WITH_SOCKETS       -> 2048
      [] OTHER                  -> 4096

RECURSIVE FlagsValue(_)
\* the uint64_t a flag set stands for
FlagsValue(fs) ==
    IF fs = {} THEN 0
    ELSE LET f == CHOOSE x \in fs : TRUE
         IN  FlagBit(f) + FlagsValue(fs \ {f})

(***************************************************************************)
(* Integer and byte helpers.                                               *)
(***************************************************************************)
MIN(a, b) == IF a < b THEN a ELSE b

RECURSIVE BitAnd(_, _)
\* a & b on naturals
BitAnd(a, b) ==
    IF a = 0 \/ b = 0 THEN 0
    ELSE (a % 2) * (b % 2) + 2 * BitAnd(a \div 2, b \div 2)

\* htole64 of a value below 2^31, as it lies in memory
htole64(x) ==
    << x % 256, (x \div 256) % 256, (x \div 65536) % 256,
       (x \div 16777216) % 256, 0, 0, 0, 0 >>

\* a uid_t or gid_t widened to uint64_t, then htole64
htole64_id(u) ==
    << u.lo % 256, u.lo \div 256, u.hi % 256, u.hi \div 256, 0, 0, 0, 0 >>

\* read_le64 at byte offset off (0-based) of a buffer, for values below 2^31
read_le64(buf, off) ==
    buf[off + 1] + 256 * buf[off + 2] + 65536 * buf[off + 3]
      + 16777216 * buf[off + 4]

RECURSIVE strcmp(_, _)
\* byte-wise comparison of two names: negative, 0 or positive
strcmp(a, b) ==
    IF a = <<>> /\ b = <<>> THEN 0
    ELSE IF a = <<>> THEN 0 - b[1]
    ELSE IF b = <<>> THEN a[1]
    ELSE IF a[1] # b[1] THEN a[1] - b[1]
    ELSE strcmp(Tail(a), Tail(b))

\* uid_t / gid_t values: the two 16-bit halves
Id(n)        == [hi |-> n \div 65536, lo |-> n % 65536]
UINT16_MAX   == 65535
IdIsU16Max(u) == u.hi = 0 /\ u.lo = UINT16_MAX
IdIsU32Max(u) == u.hi = UINT16_MAX /\ u.lo = UINT16_MAX
IdGtU16Max(u) == u.hi > 0

\* m & S_IFMT for a 16-bit st_mode: the four type bits
TypeBits(m) == ((m \div 4096) % 16) * 4096
S_ISREG(m)  == TypeBits(m) = S_IFREG
S_ISDIR(m)  == TypeBits(m) = S_IFDIR
S_ISLNK(m)  == TypeBits(m) = S_IFLNK
S_ISBLK(m)  == TypeBits(m) = S_IFBLK
S_ISCHR(m)  == TypeBits(m) = S_IFCHR
S_ISFIFO(m) == TypeBits(m) = S_IFIFO
S_ISSOCK(m) == TypeBits(m) = S_IFSOCK

\* timespec_to_nsec (util.h)
timespec_to_nsec(t) == t.tv_sec * 1000000000 + t.tv_nsec

(***************************************************************************)
(* The file system the encoder reads: a table of inodes.  A directory      *)
(* lists its entries in the order readdir() happens to return them, "."    *)
(* and ".." included.                                                      *)
(***************************************************************************)
DT_UNKNOWN == "DT_UNKNOWN"
DT_FIFO    == "DT_FIFO"
DT_CHR     == "DT_CHR"
DT_DIR     == "DT_DIR"
DT_BLK     == "DT_BLK"
DT_REG     == "DT_REG"
DT_LNK     == "DT_LNK"
DT_SOCK    == "DT_SOCK"

Dirent(name, type, ino) == [d_name |-> name, d_type |-> type, ino |-> ino]

Inode(mode, uid, gid, sec, nsec, data, target, rdev, entries) ==
    [ st_mode  |-> mode,
      st_size  |-> IF S_ISREG(mode) THEN Len(data)
                   ELSE IF S_ISLNK(mode) THEN Len(target) ELSE 0,
      st_uid   |-> uid,
      st_gid   |-> gid,
      st_mtim  |-> [tv_sec |-> sec, tv_nsec |-> nsec],
      st_rdev  |-> rdev,
      data     |-> data,
      target   |-> target,
      entries  |-> entries ]

NoDev == [major |-> 0, minor |-> 0]
Dot   == Dirent(<<46>>, DT_DIR, 0)
DotDot == Dirent(<<46, 46>>, DT_DIR, 0)

\* 512 bytes: one sector of the block device
SectorData == [i \in 1..512 |-> i % 251]

FS ==
    LET dir(perm, ents) == Inode(S_IFDIR + perm, Id(0), Id(0), 1, 5, <<>>, <<>>, NoDev, ents)
    IN
    \* 1: an empty directory
    1 :> dir(493, << Dot, DotDot >>)
    \* 2: regular files only; ".a" and "a" are two names of inode 11
    @@ 2 :> dir(493, << Dirent(<<98>>, DT_REG, 10), Dot, Dirent(<<46, 97>>, DT_REG, 11),
                        Dirent(<<97>>, DT_UNKNOWN, 11), DotDot >>)
    \* 3: a symlink "l" and a directory "d"
    @@ 3 :> dir(448, << Dirent(<<108>>, DT_LNK, 12), DotDot,
                        Dirent(<<100>>, DT_DIR, 4), Dot >>)
    @@ 4 :> dir(365, << Dot, DotDot, Dirent(<<102>>, DT_REG, 10) >>)
    \* 5: a socket "s", a fifo "p", a block device "k", a character device "c"
    @@ 5 :> dir(493, << Dirent(<<115>>, DT_SOCK, 14), Dirent(<<112>>, DT_FIFO, 13), Dot,
                        Dirent(<<107>>, DT_UNKNOWN, 16), Dirent(<<99>>, DT_CHR, 15),
                        DotDot >>)
    \* 6: children owned by reserved or wide ids
    @@ 6 :> dir(493, << Dot, DotDot, Dirent(<<117>>, DT_LNK, 17),
                        Dirent(<<118>>, DT_REG, 18), Dirent(<<119>>, DT_FIFO, 19) >>)
    \* 7, 8, 9, 20: a chain of directories "x/x/x/x"
    @@ 7 :> dir(493, << Dot, DotDot, Dirent(<<120>>, DT_DIR, 8) >>)
    @@ 8 :> dir(493, << Dot, DotDot, Dirent(<<120>>, DT_DIR, 9) >>)
    @@ 9 :> dir(493, << Dot, DotDot, Dirent(<<120>>, DT_DIR, 20) >>)
    @@ 20 :> dir(493, << Dot, DotDot, Dirent(<<120>>, DT_REG, 11) >>)
    \* 21: an empty file "e" and, as the last entry, a directory "z" (22) that
    \* holds the file "g" (23)
    @@ 21 :> dir(493, << Dirent(<<122>>, DT_DIR, 22), Dot, DotDot,
                         Dirent(<<101>>, DT_REG, 11) >>)
    @@ 22 :> dir(448, << Dot, Dirent(<<103>>, DT_REG, 23), DotDot >>)
    \* 10: "abc", mode 0644, uid 1000, gid 100
    @@ 10 :> Inode(S_IFREG + 420, Id(1000), Id(100), 1, 234567891,
                   <<97, 98, 99>>, <<>>, NoDev, <<>>)
    \* 11: an empty read-only file
    @@ 11 :> Inode(S_IFREG + 292, Id(0), Id(0), 0, 999, <<>>, <<>>, NoDev, <<>>)
    \* 12: a symlink to "t", on-disk mode 0750
    @@ 12 :> Inode(S_IFLNK + 488, Id(1000), Id(100), 2, 100, <<>>, <<116>>, NoDev, <<>>)
    @@ 13 :> Inode(S_IFIFO + 420, Id(0), Id(0), 0, 1500, <<>>, <<>>, NoDev, <<>>)
    @@ 14 :> Inode(S_IFSOCK + 493, Id(0), Id(0), 0, 0, <<>>, <<>>, NoDev, <<>>)
    @@ 15 :> Inode(S_IFCHR + 438, Id(0), Id(5), 0, 7, <<>>, <<>>,
                   [major |-> 1, minor |-> 3], <<>>)
    \* 16: a block device of one sector
    @@ 16 :> Inode(S_IFBLK + 432, Id(0), Id(6), 0, 8, SectorData, <<>>,
                   [major |-> 8, minor |-> 1], <<>>)
    \* 17: a symlink owned by uid 65535
    @@ 17 :> Inode(S_IFLNK + 511, Id(65535), Id(0), 0, 0, <<>>, <<116>>, NoDev, <<>>)
    \* 18: a file owned by uid 70000
    @@ 18 :> Inode(S_IFREG + 420, Id(70000), Id(0), 0, 0, <<120>>, <<>>, NoDev, <<>>)
    \* 19: a fifo owned by gid UINT32_MAX
    @@ 19 :> Inode(S_IFIFO + 420, Id(0), [hi |-> UINT16_MAX, lo |-> UINT16_MAX],
                   0, 0, <<>>, <<>>, NoDev, <<>>)
    \* 23: a file of 512 bytes, more than two payload chunks
    @@ 23 :> Inode(S_IFREG + 384, Id(0), Id(0), 1, 0, SectorData, <<>>, NoDev, <<>>)

\* the inodes a caller may hand to ca_encoder_set_base_fd
Roots == {1, 2, 3, 5, 6, 7, 10, 11, 15, 16}
\* the same, and the tree under inode 21
TreeRoots == Roots \cup {21}
\* the descriptor numbers under which the caller holds the root
RootFds == {0, 3}

\* the struct stat that fstat()/fstatat() fill in for an inode
StatOf(ino) ==
    [ st_mode |-> FS[ino].st_mode, st_size |-> FS[ino].st_size,
      st_uid  |-> FS[ino].st_uid,  st_gid  |-> FS[ino].st_gid,
      st_mtim |-> FS[ino].st_mtim, st_rdev |-> FS[ino].st_rdev ]

\* a zero-initialised struct stat
ZeroStat ==
    [ st_mode |-> 0, st_size |-> 0, st_uid |-> Id(0), st_gid |-> Id(0),
      st_mtim |-> [tv_sec |-> 0, tv_nsec |-> 0], st_rdev |-> NoDev ]

\* the entry of directory dir with the given name
Lookup(dir, name) ==
    LET ents == FS[dir].entries
        i == CHOOSE j \in 1..Len(ents) : ents[j].d_name = name
    IN  ents[i].ino

\* a blank slot of CaEncoder.nodes[]: fd -1, device size not read yet
BlankNode ==
    [ fd |-> -1, stat |-> ZeroStat, dirents |-> <<>>, n_dirents |-> 0,
      dirent_idx |-> 0, symlink_target |-> <<>>, device_size |-> -1 ]

\* ca_encoder_new: calloc'ed, then feature_flags and time_granularity set
NewEncoder ==
    [ state |-> CA_ENCODER_INIT,
      feature_flags |-> CA_FORMAT_WITH_BEST,
      time_granularity |-> 1,
      nodes |-> <<>>,
      n_nodes |-> 0,
      node_idx |-> 0,
      buffer |-> <<>>,
      archive_offset |-> 0,
      payload_offset |-> 0,
      step_size |-> 0 ]

(***************************************************************************)
(* The kernel's descriptor table: open descriptor -> [ino, pos].           *)
(* A process starts with descriptors 0..2, the standard streams, open on   *)
(* its terminal (inode 0); open() hands out the lowest free number.        *)
(***************************************************************************)
MaxFdNo == 3 + NODES_MAX

\* the table of a process that has opened nothing yet
StdFds == [f \in 0..2 |-> [ino |-> 0, pos |-> 0]]

LowestFreeFd(fdt) == CHOOSE f \in 0..MaxFdNo : f \notin DOMAIN fdt /\
                         \A g \in 0..MaxFdNo : g \notin DOMAIN fdt => f <= g

kopen(fdt, fd, ino) == [f \in DOMAIN fdt \cup {fd} |->
                          IF f = fd THEN [ino |-> ino, pos |-> 0] ELSE fdt[f]]

kclose(fdt, fd) == [f \in DOMAIN fdt \ {fd} |-> fdt[f]]

\* safe_close (util.h): closes a valid descriptor, always yields -1
ca_safe_close(fdt, fd) == IF fd >= 0 THEN kclose(fdt, fd) ELSE fdt

(***************************************************************************)
(* What the environment decides for one API call: which system call, if    *)
(* any, fails; in which order readdir() lists a directory; and what the    *)
(* machine does on an integer division by zero.                            *)
(***************************************************************************)
IOFailures == {"none", "openat", "scandir", "read", "short"}
Orders     == {"disk", "reversed", "rotated"}
Div0s      == {"trap", "zero"}

Envs == [fail : IOFailures, order : Orders, div0 : Div0s]
QuietEnv(order, div0) == [fail |-> "none", order |-> order, div0 |-> div0]

RECURSIVE Reverse(_)
Reverse(s) == IF s = <<>> THEN <<>> ELSE Append(Reverse(Tail(s)), Head(s))

\* the entries of directory ino in the order this readdir() run returns them
Enumerate(ino, order) ==
    LET ents == FS[ino].entries
    IN  CASE order = "disk"     -> ents
          [] order = "reversed" -> Reverse(ents)
          [] OTHER              -> Append(Tail(ents), Head(ents))

(***************************************************************************)
(* CaEncoderNode                                                           *)
(***************************************************************************)
\* d_name[i] of a NUL-terminated name (i counts from 0)
CharAt(name, i) == IF i < Len(name) THEN name[i + 1] ELSE 0

\* scandir_filter: drops "." and ".."
scandir_filter(de) ==
    IF CharAt(de.d_name, 0) # 46 THEN TRUE
    ELSE IF CharAt(de.d_name, 1) = 0 THEN FALSE
    ELSE IF CharAt(de.d_name, 1) # 46 THEN TRUE
    ELSE CharAt(de.d_name, 2) # 0

MutCompareNone(a, b) == 0

MutCompareReversed(a, b) == strcmp(b.d_name, a.d_name)

\* scandir_compare: strcmp of the raw names
scandir_compare(a, b) == strcmp(a.d_name, b.d_name)

RECURSIVE SortInsert(_, _)
SortInsert(sorted, x) ==
    IF sorted = <<>> THEN << x >>
    ELSE IF scandir_compare(x, Head(sorted)) < 0 THEN << x >> \o sorted
    ELSE << Head(sorted) >> \o SortInsert(Tail(sorted), x)

RECURSIVE SortDirents(_)
\* the qsort() of scandirat(), as an insertion sort
SortDirents(s) ==
    IF s = <<>> THEN <<>>
    ELSE CHOOSE res \in { SortInsert(rest, Head(s)) : rest \in {SortDirents(Tail(s))} } : TRUE

RECURSIVE FilterDirents(_)
FilterDirents(s) ==
    IF s = <<>> THEN <<>>
    ELSE IF scandir_filter(Head(s)) THEN << Head(s) >> \o FilterDirents(Tail(s))
    ELSE FilterDirents(Tail(s))

\* scandirat(fd, ".", &dirents, scandir_filter, scandir_compare): the
\* struct dirent copies, without the inode they name
scandirat(ino, order) ==
    CHOOSE res \in
      { [i \in 1..Len(kept) |-> [d_name |-> kept[i].d_name, d_type |-> kept[i].d_type]] :
          kept \in {SortDirents(FilterDirents(Enumerate(ino, order)))} } : TRUE

\* ca_encoder_node_free
ca_encoder_node_free(n, fdt) ==
    [ n   |-> [BlankNode EXCEPT !.stat = n.stat],
      fdt |-> IF n.fd >= 3 THEN ca_safe_close(fdt, n.fd) ELSE fdt ]

\* ca_encoder_node_current_dirent: the index (from 0) of the current
\* entry, or -1 for NULL
ca_encoder_node_current_dirent(n) ==
    IF n.n_dirents <= 0 THEN -1
    ELSE IF n.dirent_idx >= n.n_dirents THEN -1
    ELSE n.dirent_idx

\* ca_encoder_node_read_dirents
ca_encoder_node_read_dirents(n, fdt, env) ==
    IF n.dirents # <<>> THEN [n |-> n, r |-> 0]
    ELSE IF ~ S_ISDIR(n.stat.st_mode) THEN [n |-> n, r |-> 0 - ENOTDIR]
    ELSE IF n.fd < 0 THEN [n |-> n, r |-> 0 - EBADFD]
    ELSE IF env.fail = "scandir" THEN [n |-> n, r |-> 0 - EIO]
    ELSE CHOOSE res \in
           { [ n |-> [n EXCEPT !.dirents = ds, !.n_dirents = Len(ds), !.dirent_idx = 0],
               r |-> 1 ] : ds \in {scandirat(fdt[n.fd].ino, env.order)} } : TRUE

\* ca_encoder_node_read_device_size
ca_encoder_node_read_device_size(n, fdt) ==
    IF n.device_size # -1 THEN [n |-> n, r |-> 0]
    ELSE IF ~ S_ISBLK(n.stat.st_mode) THEN [n |-> n, r |-> 0 - ENOTTY]
    ELSE IF n.fd < 0 THEN [n |-> n, r |-> 0 - EBADFD]
    ELSE LET u == Len(FS[fdt[n.fd].ino].data) \div 512
         IN  [n |-> [n EXCEPT !.device_size = u * 512], r |-> 1]

RECURSIVE readlink_loop(_, _)
\* the loop of ca_encoder_node_read_symlink: readlinkat() into k bytes,
\* doubling k until the target is shorter; the target with its NUL
readlink_loop(target, k) ==
    IF MIN(Len(target), k) < k THEN target \o << 0 >>
    ELSE readlink_loop(target, 2 * k)

\* ca_encoder_node_read_symlink(n, de, symlink)
ca_encoder_node_read_symlink(n, de, symlink, fdt) ==
    IF ~ S_ISDIR(n.stat.st_mode) THEN [n |-> symlink, r |-> 0 - ENOTDIR]
    ELSE IF n.fd < 0 THEN [n |-> symlink, r |-> 0 - EBADFD]
    ELSE IF ~ S_ISLNK(symlink.stat.st_mode) THEN [n |-> symlink, r |-> 0 - ENOTTY]
    ELSE IF symlink.symlink_target # <<>> THEN [n |-> symlink, r |-> 0]
    ELSE LET ino == Lookup(fdt[n.fd].ino, de.d_name)
         IN  [ n |-> [symlink EXCEPT !.symlink_target = readlink_loop(FS[ino].target, 16)],
               r |-> 1 ]

\* strlen of a NUL-terminated string held in a buffer
strlen(s) == (CHOOSE i \in 1..Len(s) : s[i] = 0 /\ \A j \in 1..(i - 1) : s[j] # 0) - 1

MutPayloadSizeHalf(n, fdt) ==
    IF S_ISREG(n.stat.st_mode) THEN [n |-> n, r |-> 0, size |-> n.stat.st_size \div 2]
    ELSE IF S_ISBLK(n.stat.st_mode) THEN
        LET d == ca_encoder_node_read_device_size(n, fdt)
        IN  IF d.r < 0 THEN [n |-> n, r |-> d.r, size |-> 0]
            ELSE [n |-> d.n, r |-> 0, size |-> d.n.device_size]
    ELSE [n |-> n, r |-> 0 - ENOTTY, size |-> 0]

\* ca_encoder_node_get_payload_size
ca_encoder_node_get_payload_size(n, fdt) ==
    IF S_ISREG(n.stat.st_mode) THEN [n |-> n, r |-> 0, size |-> n.stat.st_size]
    ELSE IF S_ISBLK(n.stat.st_mode) THEN
        LET d == ca_encoder_node_read_device_size(n, fdt)
        IN  IF d.r < 0 THEN [n |-> n, r |-> d.r, size |-> 0]
            ELSE [n |-> d.n, r |-> 0, size |-> d.n.device_size]
    ELSE [n |-> n, r |-> 0 - ENOTTY, size |-> 0]

(***************************************************************************)
(* CaEncoder.  nodes[i] of the C array is e.nodes[i + 1]; only the first   *)
(* n_nodes slots are kept.  Operators that change the encoder return it,   *)
(* with the descriptor table and the return value r where they have one.   *)
(***************************************************************************)
NodeAt(e, i) == e.nodes[i + 1]
SetNode(e, i, n) == [e EXCEPT !.nodes[i + 1] = n]

MutFlagsToggle16Bit(e, flags) ==
    IF flags \ CA_FORMAT_FEATURE_FLAGS_MAX # {} THEN [e |-> e, r |-> 0 - EOPNOTSUPP]
    ELSE
    LET f1 == IF WITH_UID_GID_32BIT \in flags
              THEN (flags \ {WITH_UID_GID_16BIT}) \cup ({WITH_UID_GID_16BIT} \ flags)
              ELSE flags
        f2 == IF WITH_TIMES_NSEC \in f1
              THEN f1 \ {WITH_TIMES_USEC, WITH_TIMES_SEC, WITH_TIMES_2SEC} ELSE f1
        g2 == IF WITH_TIMES_NSEC \in f1 THEN 1 ELSE 0
        f3 == IF WITH_TIMES_USEC \in f2 THEN f2 \ {WITH_TIMES_SEC, WITH_TIMES_2SEC} ELSE f2
        g3 == IF WITH_TIMES_USEC \in f2 THEN 1000 ELSE g2
        f4 == IF WITH_TIMES_SEC \in f3 THEN f3 \ {WITH_TIMES_2SEC} ELSE f3
        g4 == IF WITH_TIMES_SEC \in f3 THEN 1000000000 ELSE g3
        g5 == IF WITH_TIMES_2SEC \in f4 THEN 2000000000 ELSE g4
        f5 == IF WITH_PERMISSIONS \in f4 THEN f4 \ {WITH_READONLY} ELSE f4
    IN  [ e |-> [e EXCEPT !.feature_flags = f5, !.time_granularity = g5], r |-> 0 ]

MutFlagsKeepReadonly(e, flags) ==
    IF flags \ CA_FORMAT_FEATURE_FLAGS_MAX # {} THEN [e |-> e, r |-> 0 - EOPNOTSUPP]
    ELSE
    LET f1 == IF WITH_UID_GID_32BIT \in flags THEN flags \ {WITH_UID_GID_16BIT} ELSE flags
        f2 == IF WITH_TIMES_NSEC \in f1
              THEN f1 \ {WITH_TIMES_USEC, WITH_TIMES_SEC, WITH_TIMES_2SEC} ELSE f1
        g2 == IF WITH_TIMES_NSEC \in f1 THEN 1 ELSE 0
        f3 == IF WITH_TIMES_USEC \in f2 THEN f2 \ {WITH_TIMES_SEC, WITH_TIMES_2SEC} ELSE f2
        g3 == IF WITH_TIMES_USEC \in f2 THEN 1000 ELSE g2
        f4 == IF WITH_TIMES_SEC \in f3 THEN f3 \ {WITH_TIMES_2SEC} ELSE f3
        g4 == IF WITH_TIMES_SEC \in f3 THEN 1000000000 ELSE g3
        g5 == IF WITH_TIMES_2SEC \in f4 THEN 2000000000 ELSE g4
    IN  [ e |-> [e EXCEPT !.feature_flags = f4, !.time_granularity = g5], r |-> 0 ]

\* ca_encoder_set_feature_flags
ca_encoder_set_feature_flags(e, flags) ==
    IF flags \ CA_FORMAT_FEATURE_FLAGS_MAX # {} THEN [e |-> e, r |-> 0 - EOPNOTSUPP]
    ELSE
    LET f1 == IF WITH_UID_GID_32BIT \in flags THEN flags \ {WITH_UID_GID_16BIT} ELSE flags
        f2 == IF WITH_TIMES_NSEC \in f1
              THEN f1 \ {WITH_TIMES_USEC, WITH_TIMES_SEC, WITH_TIMES_2SEC} ELSE f1
        g2 == IF WITH_TIMES_NSEC \in f1 THEN 1 ELSE 0
        f3 == IF WITH_TIMES_USEC \in f2 THEN f2 \ {WITH_TIMES_SEC, WITH_TIMES_2SEC} ELSE f2
        g3 == IF WITH_TIMES_USEC \in f2 THEN 1000 ELSE g2
        f4 == IF WITH_TIMES_SEC \in f3 THEN f3 \ {WITH_TIMES_2SEC} ELSE f3
        g4 == IF WITH_TIMES_SEC \in f3 THEN 1000000000 ELSE g3
        g5 == IF WITH_TIMES_2SEC \in f4 THEN 2000000000 ELSE g4
        f5 == IF WITH_PERMISSIONS \in f4 THEN f4 \ {WITH_READONLY} ELSE f4
    IN  [ e |-> [e EXCEPT !.feature_flags = f5, !.time_granularity = g5], r |-> 0 ]

MutSetBaseFdNoBusy(e, fd, fdt) ==
    IF fd < 0 THEN [e |-> e, r |-> 0 - EINVAL]
    ELSE LET st == StatOf(fdt[fd].ino)
         IN  IF ~ S_ISREG(st.st_mode) /\ ~ S_ISDIR(st.st_mode) /\ ~ S_ISBLK(st.st_mode)
             THEN [e |-> e, r |-> 0 - ENOTTY]
             ELSE [ e |-> [e EXCEPT !.nodes = << [BlankNode EXCEPT !.fd = fd, !.stat = st] >>,
                                    !.n_nodes = 1],
                    r |-> 0 ]

\* ca_encoder_set_base_fd; the caller holds fd open on inode ino
ca_encoder_set_base_fd(e, fd, fdt) ==
    IF fd < 0 THEN [e |-> e, r |-> 0 - EINVAL]
    ELSE IF e.n_nodes > 0 THEN [e |-> e, r |-> 0 - EBUSY]
    ELSE LET st == StatOf(fdt[fd].ino)
         IN  IF ~ S_ISREG(st.st_mode) /\ ~ S_ISDIR(st.st_mode) /\ ~ S_ISBLK(st.st_mode)
             THEN [e |-> e, r |-> 0 - ENOTTY]
             ELSE [ e |-> [e EXCEPT !.nodes = << [BlankNode EXCEPT !.fd = fd, !.stat = st] >>,
                                    !.n_nodes = 1],
                    r |-> 0 ]

\* ca_encoder_current_node / ca_encoder_current_child_node: is there one
has_current_node(e) == ~ (e.node_idx >= e.n_nodes)
has_current_child_node(e) == ~ (e.node_idx + 1 >= e.n_nodes)
ca_encoder_current_node(e) == NodeAt(e, e.node_idx)
ca_encoder_current_child_node(e) == NodeAt(e, e.node_idx + 1)

RECURSIVE MutForgetChildrenOffByOne(_, _)
MutForgetChildrenOffByOne(e, fdt) ==
    IF e.n_nodes > e.node_idx
    THEN CHOOSE res \in
           { MutForgetChildrenOffByOne(e1, f.fdt) :
               e1 \in {[e EXCEPT !.nodes = SubSeq(e.nodes, 1, e.n_nodes - 1),
                                 !.n_nodes = e.n_nodes - 1]},
               f \in {ca_encoder_node_free(NodeAt(e, e.n_nodes - 1), fdt)} } : TRUE
    ELSE [e |-> e, fdt |-> fdt]

RECURSIVE ca_encoder_forget_children(_, _)
\* ca_encoder_forget_children
ca_encoder_forget_children(e, fdt) ==
    IF e.n_nodes - 1 > e.node_idx
    THEN CHOOSE res \in
           { ca_encoder_forget_children(e1, f.fdt) :
               e1 \in {[e EXCEPT !.nodes = SubSeq(e.nodes, 1, e.n_nodes - 1),
                                 !.n_nodes = e.n_nodes - 1]},
               f \in {ca_encoder_node_free(NodeAt(e, e.n_nodes - 1), fdt)} } : TRUE
    ELSE [e |-> e, fdt |-> fdt]

MutInitChildNoLimit(e, fdt) ==
    CHOOSE res \in
      { [ e |-> [f.e EXCEPT !.nodes = Append(f.e.nodes, BlankNode),
                            !.n_nodes = f.e.n_nodes + 1],
          fdt |-> f.fdt, ok |-> TRUE ] :
          f \in {ca_encoder_forget_children(e, fdt)} } : TRUE

\* ca_encoder_init_child: ok is FALSE for the NULL return
ca_encoder_init_child(e, fdt) ==
    CHOOSE res \in
      { IF f.e.n_nodes >= NODES_MAX THEN [e |-> f.e, fdt |-> f.fdt, ok |-> FALSE]
        ELSE [ e |-> [f.e EXCEPT !.nodes = Append(f.e.nodes, BlankNode),
                                 !.n_nodes = f.e.n_nodes + 1],
               fdt |-> f.fdt, ok |-> TRUE ] :
          f \in {ca_encoder_forget_children(e, fdt)} } : TRUE

\* the end of ca_encoder_open_child: the child is opened (newfd) or not
\* (newfd = -1), st1 is what fstatat() gave, if it was called
open_child_opened(n, c, de, ino, have_stat, st1, newfd) ==
    CHOOSE res \in
      { IF S_ISLNK(child.stat.st_mode)
        THEN CHOOSE res1 \in
               { [ e |-> SetNode(c.e, c.e.n_nodes - 1, l.n), fdt |-> fdt2,
                   r |-> IF l.r < 0 THEN l.r ELSE 0 ] :
                   l \in {ca_encoder_node_read_symlink(n, de, child, fdt2)} } : TRUE
        ELSE [e |-> SetNode(c.e, c.e.n_nodes - 1, child), fdt |-> fdt2, r |-> 0] :
          fdt2 \in {IF newfd >= 0 THEN kopen(c.fdt, newfd, ino) ELSE c.fdt},
          \* fstat(child->fd, &child->stat)
          child \in {[BlankNode EXCEPT !.fd = newfd,
                                       !.stat = IF newfd >= 0 /\ ~ have_stat
                                                THEN StatOf(ino) ELSE st1]} } : TRUE

\* ca_encoder_open_child from the call of ca_encoder_init_child on, whose
\* result is c: [e, fdt, ok]; ino is the inode that de->d_name names
open_child_at(n, c, de, env, ino) ==
    IF ~ c.ok THEN [e |-> c.e, fdt |-> c.fdt, r |-> 0 - E2BIG]
    ELSE
    LET by_type   == de.d_type = DT_DIR \/ de.d_type = DT_REG
        have_stat == ~ by_type
    IN
    CHOOSE res \in
      { LET shall_open == IF by_type THEN TRUE
                          ELSE S_ISREG(st1.st_mode) \/ S_ISDIR(st1.st_mode)
        IN  IF shall_open /\ env.fail = "openat"
            THEN [ e |-> SetNode(c.e, c.e.n_nodes - 1, [BlankNode EXCEPT !.stat = st1]),
                   fdt |-> c.fdt, r |-> 0 - EACCES ]
            ELSE open_child_opened(n, c, de, ino, have_stat, st1,
                                   IF shall_open THEN LowestFreeFd(c.fdt) ELSE -1) :
          \* fstatat(n->fd, de->d_name, &child->stat, AT_SYMLINK_NOFOLLOW)
          st1 \in {IF have_stat THEN StatOf(ino) ELSE ZeroStat} } : TRUE

\* ca_encoder_open_child(e, de)
ca_encoder_open_child(e, de, fdt, env) ==
    IF ~ has_current_node(e) THEN [e |-> e, fdt |-> fdt, r |-> 0 - EUNATCH]
    ELSE
    LET n == ca_encoder_current_node(e)
    IN
    IF ~ S_ISDIR(n.stat.st_mode) THEN [e |-> e, fdt |-> fdt, r |-> 0 - ENOTDIR]
    ELSE IF n.fd < 0 THEN [e |-> e, fdt |-> fdt, r |-> 0 - EBADFD]
    ELSE CHOOSE res \in { open_child_at(n, c, de, env, ino) :
                            c \in {ca_encoder_init_child(e, fdt)},
                            ino \in {Lookup(fdt[n.fd].ino, de.d_name)} } : TRUE

\* ca_encoder_enter_child
ca_encoder_enter_child(e) ==
    IF e.node_idx + 1 >= e.n_nodes THEN [e |-> e, r |-> 0 - EINVAL]
    ELSE LET mode == NodeAt(e, e.node_idx + 1).stat.st_mode
         IN  IF mode = 0 THEN [e |-> e, r |-> 0 - EINVAL]
             ELSE IF ~ S_ISREG(mode) /\ ~ S_ISDIR(mode) THEN [e |-> e, r |-> 0 - ENOTTY]
             ELSE IF NodeAt(e, e.node_idx + 1).fd < 0 THEN [e |-> e, r |-> 0 - EINVAL]
             ELSE [e |-> [e EXCEPT !.node_idx = e.node_idx + 1], r |-> 0]

MutLeaveChildNoResume(e) ==
    IF e.node_idx <= 0 THEN [e |-> e, r |-> 0]
    ELSE [e |-> [e EXCEPT !.node_idx = e.node_idx - 1], r |-> 0]

\* ca_encoder_leave_child
ca_encoder_leave_child(e) ==
    IF e.node_idx <= 0 THEN [e |-> e, r |-> 0]
    ELSE [e |-> [e EXCEPT !.node_idx = e.node_idx - 1], r |-> 1]

\* realloc_buffer_empty(&e->buffer)
realloc_buffer_empty(e) == [e EXCEPT !.buffer = <<>>]

MutEnterStateKeepBuffer(e, state) ==
    [e EXCEPT !.state = state, !.payload_offset = 0, !.step_size = 0]

\* ca_encoder_enter_state
ca_encoder_enter_state(e, state) ==
    [e EXCEPT !.state = state, !.buffer = <<>>, !.payload_offset = 0, !.step_size = 0]

(***************************************************************************)
(* ca_encoder_step                                                         *)
(***************************************************************************)
\* the process has died: a failed assert(), a trap, a fault
ABORTED == -1000

MutStepRegularOneChunk(e, fdt) ==
    CHOOSE res \in
      { LET e1 == realloc_buffer_empty(e)
            e2 == SetNode(e1, e1.node_idx, ps.n)
        IN  IF ps.r < 0 THEN [e |-> e1, fdt |-> fdt, r |-> ps.r]
            ELSE IF e2.payload_offset > 0 \/ e2.payload_offset >= ps.size
            THEN [e |-> ca_encoder_enter_state(e2, CA_ENCODER_EOF), fdt |-> fdt,
                  r |-> CA_ENCODER_FINISHED]
            ELSE [e |-> e2, fdt |-> fdt, r |-> CA_ENCODER_DATA] :
          ps \in {ca_encoder_node_get_payload_size(ca_encoder_current_node(e), fdt)} } : TRUE

\* ca_encoder_step_regular(e, n), n the current node
ca_encoder_step_regular(e, fdt) ==
    CHOOSE res \in
      { LET e1 == realloc_buffer_empty(e)
            e2 == SetNode(e1, e1.node_idx, ps.n)
        IN  IF ps.r < 0 THEN [e |-> e1, fdt |-> fdt, r |-> ps.r]
            ELSE IF e2.payload_offset >= ps.size
            THEN [e |-> ca_encoder_enter_state(e2, CA_ENCODER_EOF), fdt |-> fdt,
                  r |-> CA_ENCODER_FINISHED]
            ELSE [e |-> e2, fdt |-> fdt, r |-> CA_ENCODER_DATA] :
          ps \in {ca_encoder_node_get_payload_size(ca_encoder_current_node(e), fdt)} } : TRUE

RECURSIVE ca_encoder_step(_, _, _)
RECURSIVE ca_encoder_step_loop(_, _, _)
RECURSIVE ca_encoder_step_directory(_, _, _)
RECURSIVE step_directory_switch(_, _, _)
RECURSIVE step_loop_after(_, _)

\* the cases CA_ENCODER_POST_CHILD (advance = TRUE) and CA_ENCODER_HELLO of
\* ca_encoder_step_directory, which the case before falls through to
step_directory_next(e, fdt, env, advance) ==
    LET n0 == ca_encoder_current_node(e)
        n  == IF advance THEN [n0 EXCEPT !.dirent_idx = n0.dirent_idx + 1] ELSE n0
        e1 == SetNode(e, e.node_idx, n)
        de == ca_encoder_node_current_dirent(n)
    IN  IF de < 0
        THEN [e |-> ca_encoder_enter_state(e1, CA_ENCODER_GOODBYE), fdt |-> fdt,
              r |-> CA_ENCODER_DATA]
        ELSE CHOOSE res \in
               { IF o.r < 0 THEN o
                 ELSE [e |-> ca_encoder_enter_state(o.e, CA_ENCODER_ENTRY), fdt |-> o.fdt,
                       r |-> CA_ENCODER_NEXT_FILE] :
                   o \in {ca_encoder_open_child(e1, n.dirents[de + 1], fdt, env)} } : TRUE

\* the switch of ca_encoder_step_directory, entered with the directory listed
step_directory_switch(e1, fdt, env) ==
    IF e1.state = CA_ENCODER_INIT
    THEN [e |-> ca_encoder_enter_state(e1, CA_ENCODER_HELLO), fdt |-> fdt,
          r |-> CA_ENCODER_DATA]
    ELSE IF e1.state = CA_ENCODER_GOODBYE
    THEN [e |-> ca_encoder_enter_state(e1, CA_ENCODER_EOF), fdt |-> fdt,
          r |-> CA_ENCODER_FINISHED]
    ELSE IF e1.state \notin {CA_ENCODER_ENTRY, CA_ENCODER_POST_CHILD, CA_ENCODER_HELLO}
    THEN [e |-> e1, fdt |-> fdt, r |-> ABORTED]
    ELSE IF e1.state = CA_ENCODER_ENTRY /\ ~ has_current_child_node(e1)
    THEN [e |-> e1, fdt |-> fdt, r |-> 0 - ENOTTY]
    ELSE IF /\ e1.state = CA_ENCODER_ENTRY
            /\ \/ S_ISDIR(ca_encoder_current_child_node(e1).stat.st_mode)
               \/ S_ISREG(ca_encoder_current_child_node(e1).stat.st_mode)
    THEN CHOOSE res \in
           { IF c.r < 0 THEN [e |-> e1, fdt |-> fdt, r |-> c.r]
             ELSE CHOOSE res1 \in
                    { ca_encoder_step(e2, fdt, env) :
                        e2 \in {ca_encoder_enter_state(c.e, CA_ENCODER_INIT)} } : TRUE :
               c \in {ca_encoder_enter_child(e1)} } : TRUE
    \* CA_ENCODER_ENTRY falls through to CA_ENCODER_POST_CHILD, and that to
    \* CA_ENCODER_HELLO
    ELSE step_directory_next(e1, fdt, env, e1.state # CA_ENCODER_HELLO)

\* ca_encoder_step_directory(e, n), n the current node
ca_encoder_step_directory(e, fdt, env) ==
    CHOOSE res \in
      { IF rd.r < 0 THEN [e |-> e, fdt |-> fdt, r |-> rd.r]
        ELSE CHOOSE res1 \in { step_directory_switch(e1, fdt, env) :
                                 e1 \in {SetNode(e, e.node_idx, rd.n)} } : TRUE :
          rd \in {ca_encoder_node_read_dirents(ca_encoder_current_node(e), fdt, env)} } : TRUE

\* ca_encoder_step after one pass of its for (;;) loop has got s from the
\* current node's step function
step_loop_after(s, env) ==
    IF s.r # CA_ENCODER_FINISHED THEN s
    ELSE CHOOSE res \in
           { IF l.r = 0
             THEN CHOOSE res1 \in
                    { [e |-> f.e, fdt |-> f.fdt, r |-> CA_ENCODER_FINISHED] :
                        f \in {ca_encoder_forget_children(l.e, s.fdt)} } : TRUE
             ELSE CHOOSE res1 \in
                    { ca_encoder_step_loop(e1, s.fdt, env) :
                        e1 \in {ca_encoder_enter_state(l.e, CA_ENCODER_POST_CHILD)} } : TRUE :
               l \in {ca_encoder_leave_child(s.e)} } : TRUE

\* the for (;;) loop of ca_encoder_step
ca_encoder_step_loop(e, fdt, env) ==
    IF ~ has_current_node(e) THEN [e |-> e, fdt |-> fdt, r |-> 0 - EUNATCH]
    ELSE
    LET mode == ca_encoder_current_node(e).stat.st_mode
    IN  CHOOSE res \in
          { step_loop_after(s, env) :
              s \in { IF S_ISREG(mode) \/ S_ISBLK(mode) THEN ca_encoder_step_regular(e, fdt)
                      ELSE IF S_ISDIR(mode) THEN ca_encoder_step_directory(e, fdt, env)
                      ELSE [e |-> e, fdt |-> fdt, r |-> 0 - ENOTTY] } } : TRUE

MutStepNoArchiveOffset(e, fdt, env) ==
    IF e.state = CA_ENCODER_EOF THEN [e |-> e, fdt |-> fdt, r |-> CA_ENCODER_FINISHED]
    ELSE CHOOSE res \in
           { ca_encoder_step_loop(e1, fdt, env) :
               e1 \in {[e EXCEPT !.payload_offset = e.payload_offset + e.step_size,
                                 !.step_size = 0]} } : TRUE

MutStepNoEofReturn(e, fdt, env) ==
    CHOOSE res \in
      { ca_encoder_step_loop(e1, fdt, env) :
          e1 \in {[e EXCEPT !.payload_offset = e.payload_offset + e.step_size,
                            !.archive_offset = e.archive_offset + e.step_size,
                            !.step_size = 0]} } : TRUE

\* ca_encoder_step
ca_encoder_step(e, fdt, env) ==
    IF e.state = CA_ENCODER_EOF THEN [e |-> e, fdt |-> fdt, r |-> CA_ENCODER_FINISHED]
    ELSE CHOOSE res \in
           { ca_encoder_step_loop(e1, fdt, env) :
               e1 \in {[e EXCEPT !.payload_offset = e.payload_offset + e.step_size,
                                 !.archive_offset = e.archive_offset + e.step_size,
                                 !.step_size = 0]} } : TRUE

(***************************************************************************)
(* ca_encoder_get_data and the record builders                             *)
(***************************************************************************)
\* sizeof(CaFormatHeader): le64 type, le64 size
SIZEOF_HEADER == 16
\* sizeof(le64_t)
SIZEOF_LE64 == 8
\* sizeof(CaFormatHello): header, uuid_part2, feature_flags
SIZEOF_HELLO == SIZEOF_HEADER + 2 * SIZEOF_LE64
\* offsetof(CaFormatEntry, name): header, mode, uid, gid, mtime
OFFSETOF_ENTRY_NAME == SIZEOF_HEADER + 4 * SIZEOF_LE64
\* offsetof(CaFormatPayload, data), offsetof(CaFormatSymlink, target),
\* offsetof(CaFormatGoodbye, table): the header alone
OFFSETOF_PAYLOAD_DATA == SIZEOF_HEADER
OFFSETOF_SYMLINK_TARGET == SIZEOF_HEADER
OFFSETOF_GOODBYE_TABLE == SIZEOF_HEADER
\* sizeof(CaFormatDevice): header, major, minor
SIZEOF_DEVICE == SIZEOF_HEADER + 2 * SIZEOF_LE64

\* a CaFormatHeader as it lies in the buffer
FormatHeader(type, size) == htole64(type) \o htole64(size)

\* read(n->fd, p, k): the bytes read and the descriptor's new position
kread(fdt, fd, k, env) ==
    LET f     == fdt[fd]
        data  == FS[f.ino].data
        avail == IF Len(data) > f.pos THEN Len(data) - f.pos ELSE 0
        full  == MIN(k, avail)
        m     == IF env.fail = "short" /\ full > 0 THEN full - 1 ELSE full
    IN  [ bytes |-> SubSeq(data, f.pos + 1, f.pos + m),
          fdt   |-> [fdt EXCEPT ![fd].pos = f.pos + m] ]

\* realloc_buffer_acquire(&e->buffer, k): the buffer now holds k bytes, not
\* yet written
realloc_buffer_acquire(e, k) == [e EXCEPT !.buffer = [i \in 1..k |-> 0]]

MutPayloadFailKeepsBuffer(e, ps, fdt, env) ==
    LET e1 == SetNode(e, e.node_idx, ps.n)
    IN
    IF ps.r < 0 THEN [e |-> e, fdt |-> fdt, r |-> ps.r]
    ELSE IF e1.payload_offset >= ps.size THEN [e |-> e1, fdt |-> fdt, r |-> 0]
    ELSE IF Len(e1.buffer) > 0 THEN [e |-> e1, fdt |-> fdt, r |-> 1]
    ELSE
    LET k == MIN(BUFFER_SIZE, ps.size - e1.payload_offset)
    IN  IF env.fail = "read"
        THEN [e |-> realloc_buffer_acquire(e1, k), fdt |-> fdt, r |-> 0 - EIO]
        ELSE CHOOSE res \in
               { IF Len(rd.bytes) # k
                 THEN [e |-> realloc_buffer_acquire(e1, k), fdt |-> rd.fdt, r |-> 0 - EIO]
                 ELSE [e |-> [e1 EXCEPT !.buffer = rd.bytes], fdt |-> rd.fdt, r |-> 1] :
                   rd \in {kread(fdt, ps.n.fd, k, env)} } : TRUE

MutPayloadAlwaysReads(e, ps, fdt, env) ==
    LET e1 == SetNode(e, e.node_idx, ps.n)
    IN
    IF ps.r < 0 THEN [e |-> e, fdt |-> fdt, r |-> ps.r]
    ELSE IF e1.payload_offset >= ps.size THEN [e |-> e1, fdt |-> fdt, r |-> 0]
    ELSE
    LET k == MIN(BUFFER_SIZE, ps.size - e1.payload_offset)
    IN  IF env.fail = "read"
        THEN [ e |-> realloc_buffer_empty(realloc_buffer_acquire(e1, k)), fdt |-> fdt,
               r |-> 0 - EIO ]
        ELSE CHOOSE res \in
               { IF Len(rd.bytes) # k
                 THEN [ e |-> realloc_buffer_empty(realloc_buffer_acquire(e1, k)),
                        fdt |-> rd.fdt, r |-> 0 - EIO ]
                 ELSE [ e |-> [realloc_buffer_acquire(e1, k) EXCEPT !.buffer = rd.bytes],
                        fdt |-> rd.fdt, r |-> 1 ] :
                   rd \in {kread(fdt, ps.n.fd, k, env)} } : TRUE

\* ca_encoder_get_payload_data once ca_encoder_node_get_payload_size has
\* returned ps: [n, r, size]
get_payload_data_sized(e, ps, fdt, env) ==
    LET e1 == SetNode(e, e.node_idx, ps.n)
    IN
    IF ps.r < 0 THEN [e |-> e, fdt |-> fdt, r |-> ps.r]
    ELSE IF e1.payload_offset >= ps.size THEN [e |-> e1, fdt |-> fdt, r |-> 0]
    ELSE IF Len(e1.buffer) > 0 THEN [e |-> e1, fdt |-> fdt, r |-> 1]
    ELSE
    LET k == MIN(BUFFER_SIZE, ps.size - e1.payload_offset)
    IN  IF env.fail = "read"
        THEN [ e |-> realloc_buffer_empty(realloc_buffer_acquire(e1, k)), fdt |-> fdt,
               r |-> 0 - EIO ]
        ELSE CHOOSE res \in
               { IF Len(rd.bytes) # k
                 THEN [ e |-> realloc_buffer_empty(realloc_buffer_acquire(e1, k)),
                        fdt |-> rd.fdt, r |-> 0 - EIO ]
                 ELSE [ e |-> [realloc_buffer_acquire(e1, k) EXCEPT !.buffer = rd.bytes],
                        fdt |-> rd.fdt, r |-> 1 ] :
                   rd \in {kread(fdt, ps.n.fd, k, env)} } : TRUE

\* ca_encoder_get_payload_data(e, n), n the current node
ca_encoder_get_payload_data(e, fdt, env) ==
    CHOOSE res \in { get_payload_data_sized(e, ps, fdt, env) :
                       ps \in {ca_encoder_node_get_payload_size(
                                   ca_encoder_current_node(e), fdt)} } : TRUE

\* ca_encoder_get_hello_data
ca_encoder_get_hello_data(e) ==
    IF Len(e.buffer) > 0 THEN [e |-> e, r |-> 1]
    ELSE [ e |-> [e EXCEPT !.buffer =
                      FormatHeader(CA_FORMAT_HELLO, SIZEOF_HELLO)
                        \o htole64(CA_FORMAT_HELLO_UUID_PART2)
                        \o htole64(FlagsValue(e.feature_flags))],
           r |-> 1 ]

MutEntryModeKeepSymlinkBits(e, mode) ==
    IF WITH_PERMISSIONS \in e.feature_flags THEN BitAnd(mode, S_IFMT + 4095)
    ELSE IF WITH_READONLY \in e.feature_flags
    THEN BitAnd(mode, S_IFMT)
           + (IF BitAnd(mode, 146) # 0
              THEN (IF S_ISDIR(mode) THEN 511 ELSE 438)
              ELSE (IF S_ISDIR(mode) THEN 365 ELSE 292))
    ELSE BitAnd(mode, S_IFMT)

MutEntryModeReadonlyFixed(e, st_mode) ==
    LET mode == IF S_ISLNK(st_mode) THEN S_IFLNK + 511 ELSE st_mode
    IN  IF WITH_PERMISSIONS \in e.feature_flags THEN BitAnd(mode, S_IFMT + 4095)
        ELSE IF WITH_READONLY \in e.feature_flags
        THEN BitAnd(mode, S_IFMT) + (IF S_ISDIR(mode) THEN 365 ELSE 292)
        ELSE BitAnd(mode, S_IFMT)

\* the mode that ca_encoder_get_entry_data emits for a child's st_mode
entry_mode(e, st_mode) ==
    LET mode == IF S_ISLNK(st_mode) THEN S_IFLNK + 511 ELSE st_mode
    IN  IF WITH_PERMISSIONS \in e.feature_flags THEN BitAnd(mode, S_IFMT + 4095)
        ELSE IF WITH_READONLY \in e.feature_flags
        THEN BitAnd(mode, S_IFMT)
               + (IF BitAnd(mode, 146) # 0
                  THEN (IF S_ISDIR(mode) THEN 511 ELSE 438)
                  ELSE (IF S_ISDIR(mode) THEN 365 ELSE 292))
        ELSE BitAnd(mode, S_IFMT)

MutEntryGateNoSymlinkCheck(e, mode) ==
    IF WITH_DEVICE_NODES \notin e.feature_flags /\ (S_ISBLK(mode) \/ S_ISCHR(mode))
    THEN 0 - EPROTONOSUPPORT
    ELSE IF WITH_FIFOS \notin e.feature_flags /\ S_ISFIFO(mode) THEN 0 - EPROTONOSUPPORT
    ELSE IF WITH_SOCKETS \notin e.feature_flags /\ S_ISSOCK(mode) THEN 0 - EPROTONOSUPPORT
    ELSE 0

\* the feature gates of ca_encoder_get_entry_data: 0, or the error
entry_feature_gate(e, mode) ==
    IF WITH_SYMLINKS \notin e.feature_flags /\ S_ISLNK(mode) THEN 0 - EPROTONOSUPPORT
    ELSE IF WITH_DEVICE_NODES \notin e.feature_flags /\ (S_ISBLK(mode) \/ S_ISCHR(mode))
    THEN 0 - EPROTONOSUPPORT
    ELSE IF WITH_FIFOS \notin e.feature_flags /\ S_ISFIFO(mode) THEN 0 - EPROTONOSUPPORT
    ELSE IF WITH_SOCKETS \notin e.feature_flags /\ S_ISSOCK(mode) THEN 0 - EPROTONOSUPPORT
    ELSE 0

MutEntryIdAlways(e, id) == id

\* the uid or gid that ca_encoder_get_entry_data emits for a child's st_uid or
\* st_gid
entry_id(e, id) ==
    IF e.feature_flags \cap {WITH_UID_GID_16BIT, WITH_UID_GID_32BIT} # {} THEN id
    ELSE Id(0)

MutEntryMtimeRaw(e, t) == timespec_to_nsec(t)

\* the mtime that ca_encoder_get_entry_data emits for a child's st_mtim; a
\* division by zero that does not trap is taken to yield 0
entry_mtime(e, t) ==
    IF e.time_granularity = 0 THEN 0
    ELSE (timespec_to_nsec(t) \div e.time_granularity) * e.time_granularity

\* ca_encoder_get_entry_data(e, n), n the current node
ca_encoder_get_entry_data(e, env) ==
    IF Len(e.buffer) > 0 THEN [e |-> e, r |-> 1]
    ELSE
    LET n  == ca_encoder_current_node(e)
        di == ca_encoder_node_current_dirent(n)
    IN
    IF di < 0 THEN [e |-> e, r |-> 0 - EILSEQ]
    ELSE IF ~ has_current_child_node(e) THEN [e |-> e, r |-> 0 - EILSEQ]
    ELSE
    LET de    == n.dirents[di + 1]
        child == ca_encoder_current_child_node(e)
        st    == child.stat
        uid   == entry_id(e, st.st_uid)
        gid   == entry_id(e, st.st_gid)
        gate  == entry_feature_gate(e, st.st_mode)
    IN
    IF IdIsU16Max(st.st_uid) \/ IdIsU32Max(st.st_uid)
         \/ IdIsU16Max(st.st_gid) \/ IdIsU32Max(st.st_gid)
    THEN [e |-> e, r |-> 0 - EINVAL]
    ELSE IF WITH_UID_GID_16BIT \in e.feature_flags
              /\ (IdGtU16Max(st.st_uid) \/ IdGtU16Max(st.st_gid))
    THEN [e |-> e, r |-> 0 - EPROTONOSUPPORT]
    ELSE IF gate < 0 THEN [e |-> e, r |-> gate]
    \* mtime / e->time_granularity with a granularity of 0
    ELSE IF e.time_granularity = 0 /\ env.div0 = "trap" THEN [e |-> e, r |-> ABORTED]
    \* strlen(child->symlink_target) of a NULL target
    ELSE IF S_ISLNK(st.st_mode) /\ child.symlink_target = <<>> THEN [e |-> e, r |-> ABORTED]
    ELSE
    LET mtime == entry_mtime(e, st.st_mtim)
        mode  == entry_mode(e, st.st_mode)
        esize == OFFSETOF_ENTRY_NAME + Len(de.d_name) + 1
        entry == FormatHeader(CA_FORMAT_ENTRY, esize)
                   \o htole64(mode) \o htole64_id(uid) \o htole64_id(gid)
                   \o htole64(mtime) \o de.d_name \o << 0 >>
        trailer ==
            IF S_ISREG(st.st_mode)
            THEN FormatHeader(CA_FORMAT_PAYLOAD, OFFSETOF_PAYLOAD_DATA + st.st_size)
            ELSE IF S_ISLNK(st.st_mode)
            THEN FormatHeader(CA_FORMAT_SYMLINK,
                              OFFSETOF_SYMLINK_TARGET + strlen(child.symlink_target) + 1)
                   \o SubSeq(child.symlink_target, 1, strlen(child.symlink_target) + 1)
            ELSE IF S_ISBLK(st.st_mode) \/ S_ISCHR(st.st_mode)
            THEN FormatHeader(CA_FORMAT_DEVICE, SIZEOF_DEVICE)
                   \o htole64(st.st_rdev.major) \o htole64(st.st_rdev.minor)
            ELSE <<>>
    IN  [e |-> [e EXCEPT !.buffer = entry \o trailer], r |-> 1]

\* ca_encoder_get_goodbye_data
ca_encoder_get_goodbye_data(e) ==
    IF Len(e.buffer) > 0 THEN [e |-> e, r |-> 1]
    ELSE LET size == htole64(OFFSETOF_GOODBYE_TABLE + SIZEOF_LE64)
         IN  [e |-> [e EXCEPT !.buffer = htole64(CA_FORMAT_GOODBYE) \o size \o size],
              r |-> 1]

\* the end of ca_encoder_get_data, b what the builder returned: [e, fdt, r]
get_data_result(b) ==
    IF b.r < 0 THEN [e |-> b.e, fdt |-> b.fdt, r |-> b.r, ret |-> <<>>]
    ELSE IF b.r = 0
    THEN [e |-> [b.e EXCEPT !.step_size = 0], fdt |-> b.fdt, r |-> 0, ret |-> <<>>]
    ELSE [ e |-> [b.e EXCEPT !.step_size = Len(b.e.buffer)], fdt |-> b.fdt, r |-> 1,
           ret |-> b.e.buffer ]

\* ca_encoder_get_data: ret is the chunk (*ret, *ret_size) handed back
ca_encoder_get_data(e, fdt, env) ==
    IF ~ has_current_node(e) THEN [e |-> e, fdt |-> fdt, r |-> 0 - EUNATCH, ret |-> <<>>]
    ELSE
    LET mode == ca_encoder_current_node(e).stat.st_mode
        none == [e |-> e, fdt |-> fdt, r |-> 0 - ENOTTY]
    IN
    CHOOSE res \in { get_data_result(b) : b \in {
             IF S_ISREG(mode) \/ S_ISBLK(mode)
             THEN IF e.state # CA_ENCODER_INIT THEN none
                  ELSE ca_encoder_get_payload_data(e, fdt, env)
             ELSE IF S_ISDIR(mode)
             THEN CASE e.state = CA_ENCODER_HELLO ->
                         [fdt |-> fdt] @@ ca_encoder_get_hello_data(e)
                    [] e.state = CA_ENCODER_ENTRY ->
                         [fdt |-> fdt] @@ ca_encoder_get_entry_data(e, env)
                    [] e.state = CA_ENCODER_GOODBYE ->
                         [fdt |-> fdt] @@ ca_encoder_get_goodbye_data(e)
                    [] OTHER -> none
             ELSE none } } : TRUE

RECURSIVE current_path_loop(_, _, _)
\* the for loop of ca_encoder_current_path from node i on; p is the path
\* built so far, <<>> for NULL
current_path_loop(e, i, p) ==
    IF ~ (i < e.n_nodes) THEN p
    ELSE LET node == NodeAt(e, i)
             de   == ca_encoder_node_current_dirent(node)
         IN  IF de < 0 THEN p
             ELSE current_path_loop(e, i + 1,
                                    (IF Len(p) > 0 THEN p \o << 47 >> ELSE p)
                                      \o node.dirents[de + 1].d_name)

\* ca_encoder_current_path: ret is the string handed back
ca_encoder_current_path(e) ==
    IF e.n_nodes <= 0 THEN [r |-> 0 - EUNATCH, ret |-> <<>>]
    ELSE LET p == current_path_loop(e, 0, <<>>)
         IN  IF p = <<>> THEN [r |-> 0 - ENOTDIR, ret |-> <<>>]
             ELSE [r |-> 0, ret |-> p]

\* ca_encoder_current_mode: ret is the mode handed back
ca_encoder_current_mode(e) ==
    IF has_current_child_node(e)
    THEN [r |-> 0, ret |-> ca_encoder_current_child_node(e).stat.st_mode]
    ELSE IF has_current_node(e)
    THEN [r |-> 0, ret |-> ca_encoder_current_node(e).stat.st_mode]
    ELSE [r |-> 0 - EUNATCH, ret |-> 0]

RECURSIVE free_nodes(_, _, _)
\* the loop of ca_encoder_unref: ca_encoder_node_free(e->nodes + i)
free_nodes(e, fdt, i) ==
    IF i < e.n_nodes
    THEN free_nodes(e, ca_encoder_node_free(NodeAt(e, i), fdt).fdt, i + 1)
    ELSE fdt

\* ca_encoder_unref: the descriptor table once the encoder is gone
ca_encoder_unref(e, fdt) == free_nodes(e, fdt, 0)

(***************************************************************************)
(* The state: one encoder driven by a caller that may make any API call    *)
(* at any time (Spec), or by a consumer that alternates step and get_data  *)
(* on two encoder instances at once (SpecWalk).                            *)
(***************************************************************************)
VARIABLES
    e,          \* the CaEncoder
    fdt,        \* the kernel's descriptor table
    life,       \* "alive", "freed" (after ca_encoder_unref) or "crashed"
    base,       \* the root the caller passed: [fd, ino], fd = -1 before
    call,       \* the last API call and what it returned: [op, r]
    stepped,    \* ca_encoder_step has been called
    got,        \* a get_data has handed back a chunk since the last step
    out,        \* that chunk
    handed,     \* the total length of all chunks handed back so far
    nsetflags,  \* calls of ca_encoder_set_feature_flags so far
    nerrors,    \* failed step / get_data calls so far
    e2,         \* SpecWalk: the second CaEncoder
    fdt2,       \* SpecWalk: its descriptor table
    pc,         \* SpecWalk: the consumer's next move
    log,        \* SpecWalk: what the first instance returned, call by call
    log2,       \* SpecWalk: what the second instance returned
    names,      \* SpecWalk: per open directory, the names of its ENTRY records
    mixed,      \* SpecWalk: readdir() has shown the two instances two orders
    req         \* SpecFlags: the flags the caller first asked for

apivars  == << e, fdt, life, base, call, stepped, got, out, handed, nsetflags, nerrors >>
walkvars == << e2, fdt2, pc, log, log2, names, mixed >>
flagvars == << req >>
vars     == << e, fdt, life, base, call, stepped, got, out, handed, nsetflags, nerrors,
               e2, fdt2, pc, log, log2, names, mixed, req >>

NoBase == [fd |-> -1, ino |-> 0]

\* the flag sets a caller asks for
FlagChoices ==
    { {},
      CA_FORMAT_FEATURE_FLAGS_MAX,
      { WITH_UID_GID_16BIT, WITH_TIMES_SEC, WITH_TIMES_2SEC, WITH_READONLY,
        WITH_SYMLINKS, WITH_FIFOS },
      { WITH_UID_GID_32BIT, WITH_TIMES_USEC, WITH_DEVICE_NODES, WITH_SOCKETS },
      { WITH_TIMES_2SEC, WITH_PERMISSIONS, WITH_READONLY, WITH_SYMLINKS,
        WITH_DEVICE_NODES, WITH_FIFOS, WITH_SOCKETS },
      { UNKNOWN_FLAG, WITH_TIMES_NSEC } }

Init ==
    /\ e = NewEncoder
    /\ fdt = StdFds
    /\ life = "alive"
    /\ base = NoBase
    /\ call = [op |-> "new", r |-> 0]
    /\ stepped = FALSE
    /\ got = FALSE
    /\ out = <<>>
    /\ handed = 0
    /\ nsetflags = 0
    /\ nerrors = 0
    /\ e2 = NewEncoder
    /\ fdt2 = StdFds
    /\ pc = "api"
    /\ log = <<>>
    /\ log2 = <<>>
    /\ names = [d \in 1..NODES_MAX |-> <<>>]
    /\ mixed = FALSE
    /\ req = {}

Usable == life = "alive" /\ nerrors < MaxErrors

\* the caller calls ca_encoder_set_feature_flags(e, flags)
SetFeatureFlags ==
    /\ Usable
    /\ nsetflags < MaxSetFlags
    /\ \E flags \in FlagChoices :
         \E res \in {ca_encoder_set_feature_flags(e, flags)} :
             /\ e' = res.e
             /\ call' = [op |-> "set_feature_flags", r |-> res.r]
    /\ nsetflags' = nsetflags + 1
    /\ UNCHANGED << fdt, life, base, stepped, got, out, handed, nerrors >>
    /\ UNCHANGED walkvars
    /\ UNCHANGED flagvars

\* the caller opens a root (in the place of its standard input when fd is
\* 0) and calls ca_encoder_set_base_fd(e, fd); when the call fails the
\* caller gives the descriptor up again
SetBaseFd ==
    /\ Usable
    /\ base.fd < 0
    /\ \E fd \in RootFds, ino \in Roots :
         \E opened \in {kopen(fdt, fd, ino)} :
         \E res \in {ca_encoder_set_base_fd(e, fd, opened)} :
             /\ e' = res.e
             /\ call' = [op |-> "set_base_fd", r |-> res.r]
             /\ fdt' = IF res.r < 0 THEN fdt ELSE opened
             /\ base' = IF res.r < 0 THEN base ELSE [fd |-> fd, ino |-> ino]
    /\ UNCHANGED << life, stepped, got, out, handed, nsetflags, nerrors >>
    /\ UNCHANGED walkvars
    /\ UNCHANGED flagvars

\* what the environment can decide for a ca_encoder_step call: the failure
\* of openat() or scandirat(), and readdir()'s order when the call may list
\* a directory (one not listed yet, or a child about to be entered)
StepEnvs(enc) ==
    { env \in Envs :
        /\ env.fail \in {"none", "openat", "scandir"}
        /\ env.div0 = "trap"
        /\ \/ env.order = "disk"
           \/ /\ has_current_node(enc)
              /\ \/ ca_encoder_current_node(enc).dirents = <<>>
                 \/ enc.state = CA_ENCODER_ENTRY }

\* and for a ca_encoder_get_data call: the failure of read(), and the outcome
\* of a division by zero when the granularity is 0
GetDataEnvs(enc) ==
    { env \in Envs :
        /\ env.fail \in {"none", "read", "short"}
        /\ env.order = "disk"
        /\ env.div0 = "trap" \/ enc.time_granularity = 0 }

\* the caller calls ca_encoder_step(e)
Step ==
    /\ Usable
    /\ \E env \in StepEnvs(e) :
         \E res \in {ca_encoder_step(e, fdt, env)} :
             /\ e' = res.e
             /\ fdt' = res.fdt
             /\ call' = [op |-> "step", r |-> res.r]
             /\ life' = IF res.r = ABORTED THEN "crashed" ELSE life
             /\ nerrors' = IF res.r < 0 THEN nerrors + 1 ELSE nerrors
    /\ stepped' = TRUE
    /\ got' = FALSE
    /\ out' = <<>>
    /\ UNCHANGED << base, handed, nsetflags >>
    /\ UNCHANGED walkvars
    /\ UNCHANGED flagvars

\* the caller calls ca_encoder_get_data(e, &p, &size)
GetData ==
    /\ Usable
    /\ \E env \in GetDataEnvs(e) :
         \E res \in {ca_encoder_get_data(e, fdt, env)} :
         LET new == ~ got \/ res.ret # out
         IN  /\ e' = res.e
             /\ fdt' = res.fdt
             /\ call' = [op |-> "get_data", r |-> res.r]
             /\ life' = IF res.r = ABORTED THEN "crashed" ELSE life
             /\ nerrors' = IF res.r < 0 THEN nerrors + 1 ELSE nerrors
             /\ got' = (got \/ res.r = 1)
             /\ out' = IF res.r = 1 THEN res.ret ELSE out
             /\ handed' = IF res.r = 1 /\ new THEN handed + Len(res.ret) ELSE handed
    /\ UNCHANGED << base, stepped, nsetflags >>
    /\ UNCHANGED walkvars
    /\ UNCHANGED flagvars

\* the caller calls ca_encoder_unref(e): the encoder's memory is released, and
\* with it the caller's record of the walk
Unref ==
    /\ life = "alive"
    /\ fdt' = ca_encoder_unref(e, fdt)
    /\ life' = "freed"
    /\ call' = [op |-> "unref", r |-> 0]
    /\ e' = NewEncoder
    /\ stepped' = FALSE
    /\ got' = FALSE
    /\ out' = <<>>
    /\ handed' = 0
    /\ nsetflags' = 0
    /\ nerrors' = 0
    /\ UNCHANGED base
    /\ UNCHANGED walkvars
    /\ UNCHANGED flagvars

Next ==
    \/ SetFeatureFlags
    \/ SetBaseFd
    \/ Step
    \/ GetData
    \/ Unref

Spec == Init /\ [][Next]_vars

(***************************************************************************)
(* Properties of the encoder under Spec.                                   *)
(***************************************************************************)
\* the pending child of a directory in state ENTRY, when there is one
AtEntry(enc) ==
    /\ has_current_node(enc)
    /\ S_ISDIR(ca_encoder_current_node(enc).stat.st_mode)
    /\ enc.state = CA_ENCODER_ENTRY
    /\ ca_encoder_node_current_dirent(ca_encoder_current_node(enc)) >= 0
    /\ has_current_child_node(enc)

ChildStat(enc) == ca_encoder_current_child_node(enc).stat

\* C1: in every reachable state time_granularity is one of 1, 1000, 10^9 or
\* 2*10^9 (so the division by it in the Entry builder is defined), and it is
\* 1 when the stored flags hold none of the four WITH_TIMES_* flags.
C1_GranularityDefined ==
    /\ e.time_granularity \in {1, 1000, 1000000000, 2000000000}
    /\ e.feature_flags \cap {WITH_TIMES_NSEC, WITH_TIMES_USEC, WITH_TIMES_SEC,
                             WITH_TIMES_2SEC} = {}
         => e.time_granularity = 1

\* C2: once ca_encoder_step has been called, a ca_encoder_set_feature_flags
\* call fails and leaves feature_flags and time_granularity as they were.
C2_FlagsFrozenAfterStep ==
    [][ (stepped /\ call'.op = "set_feature_flags" /\ life' = "alive")
          => /\ call'.r < 0
             /\ e'.feature_flags = e.feature_flags
             /\ e'.time_granularity = e.time_granularity ]_vars

\* C3: archive_offset never decreases; right after a step call it is the
\* total length of the chunks get_data has handed back before that step; and
\* a chunk get_data has just handed back is not yet part of it.
C3_ArchiveOffset ==
    /\ [](call.op = "step" => e.archive_offset = handed)
    /\ []((call.op = "get_data" /\ call.r = 1)
            => e.archive_offset + Len(out) = handed /\ e.step_size = Len(out))
    /\ [][life' = "alive" => e'.archive_offset >= e.archive_offset]_vars

\* a walk has been stepped to its end with chunks handed back on the way
C3_Witness ==
    /\ call = [op |-> "step", r |-> CA_ENCODER_FINISHED]
    /\ e.archive_offset = handed
    /\ handed > SIZEOF_HELLO + SIZEOF_HEADER + SIZEOF_LE64
    /\ nerrors = 0

\* C4: after a successful get_data, the next step call leaves the buffer
\* empty and step_size 0, so that a later get_data cannot hand the same
\* chunk back again.
C4_StepEmptiesBuffer ==
    [][ (got /\ call'.op = "step") => (e'.buffer = <<>> /\ e'.step_size = 0) ]_vars

\* the child at the current entry is of a kind whose WITH_* flag is off
KindSwitchedOff(enc) ==
    LET mode == ChildStat(enc).st_mode
    IN  \/ S_ISLNK(mode) /\ WITH_SYMLINKS \notin enc.feature_flags
        \/ (S_ISBLK(mode) \/ S_ISCHR(mode)) /\ WITH_DEVICE_NODES \notin enc.feature_flags
        \/ S_ISFIFO(mode) /\ WITH_FIFOS \notin enc.feature_flags
        \/ S_ISSOCK(mode) /\ WITH_SOCKETS \notin enc.feature_flags

\* the child's uid or gid is one of the reserved values 65535 and 2^32-1
ReservedId(enc) ==
    \/ IdIsU16Max(ChildStat(enc).st_uid) \/ IdIsU32Max(ChildStat(enc).st_uid)
    \/ IdIsU16Max(ChildStat(enc).st_gid) \/ IdIsU32Max(ChildStat(enc).st_gid)

\* get_data is called to build the chunk of an entry whose kind is off
BuildsSwitchedOffEntry ==
    /\ call'.op = "get_data"
    /\ AtEntry(e)
    /\ e.buffer = <<>>
    /\ KindSwitchedOff(e)

\* C5 as claimed: the get_data call at an entry of a kind whose flag is off
\* fails with EPROTONOSUPPORT and hands out no bytes.
C5_RejectedWithProtoNoSupport ==
    [][ BuildsSwitchedOffEntry
          => /\ call'.r = 0 - EPROTONOSUPPORT
             /\ e'.buffer = <<>> /\ e'.step_size = 0 /\ handed' = handed ]_vars

\* C5: the get_data call at an entry of a kind whose flag is off fails and
\* hands out no bytes; the error is EINVAL when the child's uid or gid is a
\* reserved value (that check comes first), and EPROTONOSUPPORT otherwise.
C5_SwitchedOffKindRejected ==
    [][ BuildsSwitchedOffEntry
          => /\ call'.r = (IF ReservedId(e) THEN 0 - EINVAL ELSE 0 - EPROTONOSUPPORT)
             /\ e'.buffer = <<>> /\ e'.step_size = 0 /\ handed' = handed ]_vars

\* get_data has just refused a symlink entry with the symlink flag off
C5_Witness ==
    /\ call = [op |-> "get_data", r |-> 0 - EPROTONOSUPPORT]
    /\ AtEntry(e)
    /\ S_ISLNK(ChildStat(e).st_mode)
    /\ ~ ReservedId(e)
    /\ WITH_SYMLINKS \notin e.feature_flags
    /\ WITH_UID_GID_16BIT \notin e.feature_flags
    /\ e.buffer = <<>>

\* the mode field of the CaFormatEntry at the start of a chunk
EntryModeField(chunk) == read_le64(chunk, SIZEOF_HEADER)

\* C6 as claimed: the ENTRY record handed back for a symlink child carries
\* the mode S_IFLNK | 0777.
C6_SymlinkMode0777 ==
    (call = [op |-> "get_data", r |-> 1] /\ AtEntry(e) /\ S_ISLNK(ChildStat(e).st_mode))
      => EntryModeField(out) = S_IFLNK + 511

\* C6: the mode of the ENTRY record built for a symlink child does not
\* depend on the link's on-disk permission bits: it is S_IFLNK | 0777 under
\* WITH_PERMISSIONS, S_IFLNK | 0666 under WITH_READONLY alone, and S_IFLNK
\* under neither.
C6_SymlinkModeByFlags ==
    [][ (call'.op = "get_data" /\ call'.r = 1 /\ AtEntry(e) /\ e.buffer = <<>>
           /\ S_ISLNK(ChildStat(e).st_mode))
          => EntryModeField(e'.buffer) =
               (IF WITH_PERMISSIONS \in e.feature_flags THEN S_IFLNK + 511
                ELSE IF WITH_READONLY \in e.feature_flags THEN S_IFLNK + 438
                ELSE S_IFLNK) ]_vars

\* a symlink entry has been handed back under WITH_PERMISSIONS, for a link
\* whose on-disk mode is not 0777
C6_Witness ==
    /\ call = [op |-> "get_data", r |-> 1]
    /\ AtEntry(e)
    /\ ChildStat(e).st_mode = S_IFLNK + 488
    /\ WITH_PERMISSIONS \in e.feature_flags
    /\ EntryModeField(out) = S_IFLNK + 511

\* C7: destroying the encoder never closes the root descriptor the caller
\* passed to ca_encoder_set_base_fd.
C7_RootFdSurvivesUnref ==
    (life = "freed" /\ base.fd >= 0) => base.fd \in DOMAIN fdt

(***************************************************************************)
(* SpecWalk: a consumer sets up two encoders alike on the same tree and    *)
(* drives both through the documented alternation of step and get_data.    *)
(* readdir() lists each directory to each instance in an order of its own. *)
(***************************************************************************)
InitWalk ==
    /\ e = NewEncoder
    /\ fdt = StdFds
    /\ life = "alive"
    /\ base = NoBase
    /\ call = [op |-> "new", r |-> 0]
    /\ stepped = FALSE
    /\ got = FALSE
    /\ out = <<>>
    /\ handed = 0
    /\ nsetflags = 0
    /\ nerrors = 0
    /\ e2 = NewEncoder
    /\ fdt2 = StdFds
    /\ pc = "setup"
    /\ log = <<>>
    /\ log2 = <<>>
    /\ names = [d \in 1..NODES_MAX |-> <<>>]
    /\ mixed = FALSE
    /\ req = {}

\* the flags the consumer asks for; a refused request leaves the defaults
WithFlags(enc, flags) ==
    IF flags = {"default"} THEN enc ELSE ca_encoder_set_feature_flags(enc, flags).e

\* the name in the CaFormatEntry at the start of a chunk
EntryName(chunk) ==
    LET rest == SubSeq(chunk, OFFSETOF_ENTRY_NAME + 1, Len(chunk))
    IN  SubSeq(rest, 1, strlen(rest))

\* both instances get the same flags and the same root
WalkSetup ==
    /\ pc = "setup"
    /\ \E flags \in FlagChoices \cup {{"default"}}, fd \in RootFds, ino \in TreeRoots :
         \E opened \in {kopen(fdt, fd, ino)} :
         \E r1 \in {ca_encoder_set_base_fd(WithFlags(e, flags), fd, opened)},
            r2 \in {ca_encoder_set_base_fd(WithFlags(e2, flags), fd, opened)} :
             /\ e' = r1.e
             /\ e2' = r2.e
             /\ fdt' = opened
             /\ fdt2' = opened
             /\ base' = [fd |-> fd, ino |-> ino]
             /\ pc' = IF r1.r < 0 THEN "done" ELSE "step"
             /\ log' = << [op |-> "set_base_fd", r |-> r1.r, chunk |-> <<>>] >>
             /\ log2' = << [op |-> "set_base_fd", r |-> r2.r, chunk |-> <<>>] >>
    /\ UNCHANGED << life, call, stepped, got, out, handed, nsetflags, nerrors, names, mixed >>
    /\ UNCHANGED flagvars

\* a step may list a directory when the current one is not listed yet or a
\* child is about to be entered
WalkOrders(enc) ==
    IF /\ has_current_node(enc)
       /\ \/ ca_encoder_current_node(enc).dirents = <<>>
          \/ enc.state = CA_ENCODER_ENTRY
    THEN Orders ELSE {"disk"}

\* ca_encoder_step on both instances
WalkStep ==
    /\ pc = "step"
    /\ \E o1 \in WalkOrders(e), o2 \in WalkOrders(e2) :
         \E r1 \in {ca_encoder_step(e, fdt, QuietEnv(o1, "trap"))},
            r2 \in {ca_encoder_step(e2, fdt2, QuietEnv(o2, "trap"))} :
             /\ e' = r1.e
             /\ fdt' = r1.fdt
             /\ e2' = r2.e
             /\ fdt2' = r2.fdt
             /\ log' = Append(log, [op |-> "step", r |-> r1.r, chunk |-> <<>>])
             /\ log2' = Append(log2, [op |-> "step", r |-> r2.r, chunk |-> <<>>])
             /\ pc' = IF r1.r \in {CA_ENCODER_NEXT_FILE, CA_ENCODER_DATA} THEN "data" ELSE "done"
             /\ mixed' = (mixed \/ o1 # o2)
    /\ UNCHANGED << life, base, call, stepped, got, out, handed, nsetflags, nerrors, names >>
    /\ UNCHANGED flagvars

\* ca_encoder_get_data on both instances
WalkGetData ==
    /\ pc = "data"
    /\ \E env \in GetDataEnvs(e) :
         \E r1 \in {ca_encoder_get_data(e, fdt, [env EXCEPT !.fail = "none"])},
            r2 \in {ca_encoder_get_data(e2, fdt2, [env EXCEPT !.fail = "none"])} :
         LET d == e.node_idx + 1
         IN  /\ e' = r1.e
             /\ fdt' = r1.fdt
             /\ e2' = r2.e
             /\ fdt2' = r2.fdt
             /\ log' = Append(log, [op |-> "get_data", r |-> r1.r, chunk |-> r1.ret])
             /\ log2' = Append(log2, [op |-> "get_data", r |-> r2.r, chunk |-> r2.ret])
             /\ pc' = IF r1.r >= 0 THEN "step" ELSE "done"
             /\ names' = IF r1.r # 1 THEN names
                         ELSE IF e.state = CA_ENCODER_HELLO
                         THEN [names EXCEPT ![d] = <<>>]
                         ELSE IF e.state = CA_ENCODER_ENTRY
                         THEN [names EXCEPT ![d] = Append(@, EntryName(r1.ret))]
                         ELSE names
    /\ UNCHANGED << life, base, call, stepped, got, out, handed, nsetflags, nerrors, mixed >>
    /\ UNCHANGED flagvars

NextWalk == WalkSetup \/ WalkStep \/ WalkGetData

SpecWalk == InitWalk /\ [][NextWalk]_vars

(***************************************************************************)
(* Properties of a walk under SpecWalk.                                    *)
(***************************************************************************)
\* the chunks the first instance handed back, in order
RECURSIVE Chunks(_)
Chunks(l) ==
    IF l = <<>> THEN <<>>
    ELSE IF Head(l).op = "get_data" /\ Head(l).r = 1
         THEN << Head(l).chunk >> \o Chunks(Tail(l))
         ELSE Chunks(Tail(l))

\* the walk of the empty directory has come to its end
EmptyDirWalked == pc = "done" /\ base.ino = 1

\* C8 as claimed: an empty directory root yields a HELLO record of 24 bytes
\* and a GOODBYE record of 24 bytes, then FINISHED, with archive_offset 48.
C8_EmptyDir48 ==
    EmptyDirWalked
      => /\ Len(Chunks(log)) = 2
         /\ Len(Chunks(log)[1]) = 24
         /\ Len(Chunks(log)[2]) = 24
         /\ log[Len(log)] = [op |-> "step", r |-> CA_ENCODER_FINISHED, chunk |-> <<>>]
         /\ e.archive_offset = 48

\* C8: an empty directory root yields exactly a HELLO record of 32 bytes
\* (16-byte header, uuid part, feature flags) and a GOODBYE record of 24
\* bytes (16-byte header, one table entry equal to the record size); step
\* then reports FINISHED and archive_offset is 56.
C8_EmptyDir56 ==
    EmptyDirWalked
      => /\ Chunks(log) =
              << FormatHeader(CA_FORMAT_HELLO, 32)
                   \o htole64(CA_FORMAT_HELLO_UUID_PART2)
                   \o htole64(FlagsValue(e.feature_flags)),
                 FormatHeader(CA_FORMAT_GOODBYE, 24) \o htole64(24) >>
         /\ [i \in 1..Len(log) |-> << log[i].op, log[i].r >>] =
              << <<"set_base_fd", 0>>, <<"step", CA_ENCODER_DATA>>, <<"get_data", 1>>,
                 <<"step", CA_ENCODER_DATA>>, <<"get_data", 1>>,
                 <<"step", CA_ENCODER_FINISHED>> >>
         /\ e.archive_offset = 56

\* the empty directory has been walked to FINISHED
C8_Witness ==
    /\ EmptyDirWalked
    /\ log[Len(log)].r = CA_ENCODER_FINISHED
    /\ e.state = CA_ENCODER_EOF
    /\ Len(Chunks(log)) = 2

\* C9: two instances with the same flags on the same tree, driven by the
\* same alternation of step and get_data, return the same codes and the
\* same chunk bytes, whatever order readdir() lists the directories in.
C9_Deterministic ==
    /\ log = log2
    /\ e.archive_offset = e2.archive_offset

\* a tree with a subdirectory has been walked to the end by two instances
\* that saw different readdir() orders
C9_Witness ==
    /\ pc = "done"
    /\ mixed
    /\ base.ino = 3
    /\ log[Len(log)] = [op |-> "step", r |-> CA_ENCODER_FINISHED, chunk |-> <<>>]
    /\ Len(Chunks(log)) > 6

\* get_data has just handed back the GOODBYE record of the current directory
GoodbyeHanded ==
    /\ pc = "step"
    /\ e.state = CA_ENCODER_GOODBYE
    /\ log[Len(log)].op = "get_data"
    /\ log[Len(log)].r = 1

\* the names in directory ino other than "." and ".."
ChildNames(ino) ==
    { FS[ino].entries[i].d_name : i \in 1..Len(FS[ino].entries) } \ { <<46>>, <<46, 46>> }

\* C10: the ENTRY records of a directory come in strictly increasing strcmp
\* order of their names, never name "." or "..", and by the time the
\* directory's GOODBYE is handed back name every child exactly once.
C10_EntryOrder ==
    /\ \A d \in 1..NODES_MAX : \A i \in 1..Len(names[d]) :
         /\ names[d][i] \notin { <<46>>, <<46, 46>> }
         /\ i > 1 => strcmp(names[d][i - 1], names[d][i]) < 0
    /\ GoodbyeHanded
         => LET listed == names[e.node_idx + 1]
                ino == fdt[ca_encoder_current_node(e).fd].ino
            IN  /\ { listed[i] : i \in 1..Len(listed) } = ChildNames(ino)
                /\ Len(listed) = Cardinality(ChildNames(ino))

\* the directory holding "b", ".a" and "a" on disk in that order, listed in
\* different orders to the two instances, has been walked up to its GOODBYE
C10_Witness ==
    /\ GoodbyeHanded
    /\ base.ino = 2
    /\ mixed
    /\ names[1] = << <<46, 97>>, <<97>>, <<98>> >>

(***************************************************************************)
(* A payload root under SpecWalk.                                          *)
(***************************************************************************)
RECURSIVE Flatten(_)
\* the bytes of a sequence of chunks, end to end
Flatten(chs) == IF chs = <<>> THEN <<>> ELSE Head(chs) \o Flatten(Tail(chs))

\* C19: for a regular file or block device as root, with payload size S
\* (st_size, or the device size in bytes), the alternation of step and
\* get_data hands back the payload bytes themselves and nothing else, in
\* chunks of min(BUFFER_SIZE, S - payload_offset) bytes; a step returns DATA
\* when fewer than S bytes have been handed back and FINISHED when all S
\* have (at once when S = 0); at the end S bytes have been handed back and
\* archive_offset is S.
C19_PayloadRoot ==
    (pc # "setup" /\ log[1].r = 0 /\ TypeBits(FS[base.ino].st_mode) \in {S_IFREG, S_IFBLK})
      => LET data == FS[base.ino].data
             S == IF TypeBits(FS[base.ino].st_mode) = S_IFREG THEN FS[base.ino].st_size
                  ELSE (Len(data) \div 512) * 512
             before(i) == Len(Flatten(Chunks(SubSeq(log, 1, i - 1))))
             all == Flatten(Chunks(log))
         IN  /\ all = SubSeq(data, 1, Len(all))
             /\ \A i \in 2..Len(log) :
                  /\ log[i].op = (IF i % 2 = 0 THEN "step" ELSE "get_data")
                  /\ log[i].op = "step"
                       => log[i].r = (IF before(i) < S THEN CA_ENCODER_DATA
                                      ELSE CA_ENCODER_FINISHED)
                  /\ log[i].op = "get_data"
                       => /\ log[i].r = 1
                          /\ Len(log[i].chunk) = MIN(BUFFER_SIZE, S - before(i))
             /\ pc = "data" => e.payload_offset = Len(all)
             /\ pc = "done"
                  => /\ log[Len(log)] = [op |-> "step", r |-> CA_ENCODER_FINISHED,
                                         chunk |-> <<>>]
                     /\ Len(all) = S
                     /\ e.archive_offset = S

\* the block device has been walked to its end in more than one chunk
C19_Witness ==
    /\ pc = "done"
    /\ base.ino = 16
    /\ Len(Chunks(log)) > 1
    /\ Len(Chunks(log)[1]) = BUFFER_SIZE
    /\ e.archive_offset = 512
    /\ log[Len(log)].r = CA_ENCODER_FINISHED

(***************************************************************************)
(* Properties of the record builders under Spec.                           *)
(***************************************************************************)
\* get_data is called at an entry whose record is not in the buffer yet, so
\* that the call has to build it
BuildsEntry == call'.op = "get_data" /\ AtEntry(e) /\ e.buffer = <<>>

\* the uid and gid fields of the CaFormatEntry at the start of a chunk
EntryUidField(chunk) ==
    [hi |-> chunk[27] + 256 * chunk[28], lo |-> chunk[25] + 256 * chunk[26]]
EntryGidField(chunk) ==
    [hi |-> chunk[35] + 256 * chunk[36], lo |-> chunk[33] + 256 * chunk[34]]

\* C11: with WITH_UID_GID_16BIT as the only width flag, get_data at an entry
\* whose uid or gid is 2^16 or more fails and hands out no byte of that
\* entry; an ENTRY record built with neither width flag carries uid 0 and
\* gid 0; one built with a width flag carries the child's st_uid and st_gid.
C11_UidGidWidth ==
    [][ BuildsEntry
          => LET width == e.feature_flags \cap {WITH_UID_GID_16BIT, WITH_UID_GID_32BIT}
                 st    == ChildStat(e)
             IN  /\ (width = {WITH_UID_GID_16BIT} /\ (st.st_uid.hi > 0 \/ st.st_gid.hi > 0))
                      => (call'.r < 0 /\ e'.buffer = <<>> /\ e'.step_size = 0
                            /\ handed' = handed)
                 /\ call'.r = 1
                      => /\ EntryUidField(e'.buffer) = (IF width = {} THEN Id(0) ELSE st.st_uid)
                         /\ EntryGidField(e'.buffer) = (IF width = {} THEN Id(0) ELSE st.st_gid)
                         /\ out' = e'.buffer ]_vars

\* get_data has just refused, under the 16-bit width, the entry of a file
\* owned by uid 70000
C11_Witness ==
    /\ call = [op |-> "get_data", r |-> 0 - EPROTONOSUPPORT]
    /\ AtEntry(e)
    /\ ChildStat(e).st_uid = Id(70000)
    /\ WITH_UID_GID_16BIT \in e.feature_flags
    /\ e.buffer = <<>>

\* the mode the claim describes for a child's mode under a flag set
ModeKept(flags, mode) ==
    IF WITH_PERMISSIONS \in flags THEN BitAnd(mode, S_IFMT + 4095)
    ELSE IF WITH_READONLY \in flags
    THEN TypeBits(mode)
           + (IF S_ISDIR(mode) THEN (IF BitAnd(mode, 146) # 0 THEN 511 ELSE 365)
              ELSE (IF BitAnd(mode, 146) # 0 THEN 438 ELSE 292))
    ELSE TypeBits(mode)

\* C12 as claimed: the mode of a built ENTRY record is what the flags keep of
\* the child's st_mode.
C12_ModeOfChild ==
    [][ (BuildsEntry /\ call'.r = 1)
          => EntryModeField(e'.buffer) = ModeKept(e.feature_flags, ChildStat(e).st_mode) ]_vars

\* C12: the mode of a built ENTRY record is what the flags keep of the
\* child's st_mode, a symlink's st_mode being taken as S_IFLNK | 0777
\* whatever permission bits the link has: S_IFMT | 07777 of it under
\* WITH_PERMISSIONS; the type bits plus 0777/0555 (directory) or 0666/0444
\* (other kinds), by whether a write bit is set, under WITH_READONLY alone;
\* the type bits under neither.
C12_ModeByFlags ==
    [][ (BuildsEntry /\ call'.r = 1)
          => LET mode == ChildStat(e).st_mode
             IN  EntryModeField(e'.buffer) =
                   ModeKept(e.feature_flags,
                            IF TypeBits(mode) = S_IFLNK THEN S_IFLNK + 511 ELSE mode) ]_vars

\* the entry of a writable regular file has been handed back under
\* WITH_READONLY alone, with mode S_IFREG | 0666
C12_Witness ==
    /\ call = [op |-> "get_data", r |-> 1]
    /\ AtEntry(e)
    /\ ChildStat(e).st_mode = S_IFREG + 420
    /\ WITH_READONLY \in e.feature_flags
    /\ WITH_PERMISSIONS \notin e.feature_flags
    /\ out = e.buffer
    /\ EntryModeField(out) = S_IFREG + 438

\* the mtime field of the CaFormatEntry at the start of a chunk
EntryMtimeField(chunk) == read_le64(chunk, SIZEOF_HEADER + 3 * SIZEOF_LE64)

\* C13: the mtime of a built ENTRY record is the child's mtime m in
\* nanoseconds rounded down to the granularity g the flags select (1, 10^3,
\* 10^9 or 2*10^9): (m / g) * g, the greatest multiple of g not above m.
C13_MtimeQuantized ==
    [][ (BuildsEntry /\ call'.r = 1
           /\ e.feature_flags \cap {WITH_TIMES_NSEC, WITH_TIMES_USEC, WITH_TIMES_SEC,
                                    WITH_TIMES_2SEC} # {})
          => LET t == ChildStat(e).st_mtim
                 m == t.tv_sec * 1000000000 + t.tv_nsec
                 g == IF WITH_TIMES_NSEC \in e.feature_flags THEN 1
                      ELSE IF WITH_TIMES_USEC \in e.feature_flags THEN 1000
                      ELSE IF WITH_TIMES_SEC \in e.feature_flags THEN 1000000000
                      ELSE 2000000000
                 f == EntryMtimeField(e'.buffer)
             IN  /\ e.time_granularity = g
                 /\ f = (m \div g) * g
                 /\ f % g = 0 /\ f <= m /\ m - f < g ]_vars

\* the entry of a file last modified at 1.234567891 s has been handed back
\* with mtime 1 s under WITH_TIMES_SEC
C13_Witness ==
    /\ call = [op |-> "get_data", r |-> 1]
    /\ AtEntry(e)
    /\ ChildStat(e).st_mtim = [tv_sec |-> 1, tv_nsec |-> 234567891]
    /\ e.time_granularity = 1000000000
    /\ out = e.buffer
    /\ EntryMtimeField(out) = 1000000000

(***************************************************************************)
(* SpecFlags: ca_encoder_set_feature_flags as a function of its argument.  *)
(* A caller asks a fresh encoder for a flag set req, any subset of         *)
(* CA_FORMAT_FEATURE_FLAGS_MAX or a set with a bit outside it, and then    *)
(* passes the flags the encoder stored to the call once more.              *)
(***************************************************************************)
InitFlags ==
    /\ e = NewEncoder
    /\ fdt = StdFds
    /\ life = "alive"
    /\ base = NoBase
    /\ call = [op |-> "new", r |-> 0]
    /\ stepped = FALSE
    /\ got = FALSE
    /\ out = <<>>
    /\ handed = 0
    /\ nsetflags = 0
    /\ nerrors = 0
    /\ e2 = NewEncoder
    /\ fdt2 = StdFds
    /\ pc = "flags"
    /\ log = <<>>
    /\ log2 = <<>>
    /\ names = [d \in 1..NODES_MAX |-> <<>>]
    /\ mixed = FALSE
    /\ req \in (SUBSET CA_FORMAT_FEATURE_FLAGS_MAX)
                 \cup { {UNKNOWN_FLAG}, {UNKNOWN_FLAG, WITH_TIMES_NSEC, WITH_READONLY} }

\* ca_encoder_set_feature_flags(e, req)
FlagsSet ==
    /\ pc = "flags"
    /\ \E res \in {ca_encoder_set_feature_flags(e, req)} :
         /\ e' = res.e
         /\ call' = [op |-> "set_feature_flags", r |-> res.r]
         /\ pc' = IF res.r < 0 THEN "done" ELSE "again"
    /\ nsetflags' = nsetflags + 1
    /\ UNCHANGED << fdt, life, base, stepped, got, out, handed, nerrors >>
    /\ UNCHANGED << e2, fdt2, log, log2, names, mixed >>
    /\ UNCHANGED flagvars

\* ca_encoder_get_feature_flags(e, &f); ca_encoder_set_feature_flags(e, f)
FlagsSetAgain ==
    /\ pc = "again"
    /\ \E res \in {ca_encoder_set_feature_flags(e, e.feature_flags)} :
         /\ e' = res.e
         /\ call' = [op |-> "set_feature_flags", r |-> res.r]
    /\ pc' = "done"
    /\ nsetflags' = nsetflags + 1
    /\ UNCHANGED << fdt, life, base, stepped, got, out, handed, nerrors >>
    /\ UNCHANGED << e2, fdt2, log, log2, names, mixed >>
    /\ UNCHANGED flagvars

NextFlags == FlagsSet \/ FlagsSetAgain

SpecFlags == InitFlags /\ [][NextFlags]_vars

\* C14: normalisation is idempotent: passing the flags that a call stored to
\* ca_encoder_set_feature_flags again succeeds and stores the same
\* feature_flags and the same time_granularity.
C14_NormalizeIdempotent ==
    [][ pc = "again"
          => /\ call'.r = 0
             /\ e'.feature_flags = e.feature_flags
             /\ e'.time_granularity = e.time_granularity ]_vars

\* a request with both widths, two time resolutions and both permission
\* flags has been normalised and its result passed in again
C14_Witness ==
    /\ pc = "done"
    /\ nsetflags = 2
    /\ call = [op |-> "set_feature_flags", r |-> 0]
    /\ req = { WITH_UID_GID_16BIT, WITH_UID_GID_32BIT, WITH_TIMES_SEC, WITH_TIMES_2SEC,
               WITH_PERMISSIONS, WITH_READONLY }
    /\ e.feature_flags = { WITH_UID_GID_32BIT, WITH_TIMES_SEC, WITH_PERMISSIONS }
    /\ e.time_granularity = 1000000000

\* C15: the flags stored for an accepted request are canonical: of the two
\* widths 32-bit wins; of the WITH_TIMES_* flags only the finest requested
\* one remains (nsec, then usec, sec, 2sec) and time_granularity matches
\* it; WITH_READONLY is dropped when WITH_PERMISSIONS is requested; every
\* other requested flag is stored and nothing that was not requested.
C15_StoredFlagsCanonical ==
    (pc \in {"again", "done"} /\ call.r = 0)
      => LET F     == e.feature_flags
             times == << WITH_TIMES_NSEC, WITH_TIMES_USEC, WITH_TIMES_SEC, WITH_TIMES_2SEC >>
             grans == << 1, 1000, 1000000000, 2000000000 >>
             asked == { i \in 1..4 : times[i] \in req }
             kept  == { i \in 1..4 : times[i] \in F }
             other == { WITH_PERMISSIONS, WITH_SYMLINKS, WITH_DEVICE_NODES, WITH_FIFOS,
                        WITH_SOCKETS }
         IN  /\ ~ (WITH_UID_GID_16BIT \in F /\ WITH_UID_GID_32BIT \in F)
             /\ WITH_UID_GID_32BIT \in F <=> WITH_UID_GID_32BIT \in req
             /\ WITH_UID_GID_16BIT \in F
                  <=> (WITH_UID_GID_16BIT \in req /\ WITH_UID_GID_32BIT \notin req)
             /\ Cardinality(kept) <= 1
             /\ asked = {} => kept = {}
             /\ asked # {}
                  => LET best == CHOOSE i \in asked : \A j \in asked : i <= j
                     IN  kept = {best} /\ e.time_granularity = grans[best]
             /\ WITH_READONLY \in F
                  <=> (WITH_READONLY \in req /\ WITH_PERMISSIONS \notin req)
             /\ F \cap other = req \cap other
             /\ F \subseteq req

\* a request with both permission flags, both widths and the usec and 2sec
\* resolutions has been accepted and stored in canonical form
C15_Witness ==
    /\ pc = "again"
    /\ call = [op |-> "set_feature_flags", r |-> 0]
    /\ req = { WITH_UID_GID_16BIT, WITH_UID_GID_32BIT, WITH_TIMES_USEC, WITH_TIMES_2SEC,
               WITH_PERMISSIONS, WITH_READONLY, WITH_FIFOS }
    /\ e.feature_flags = { WITH_UID_GID_32BIT, WITH_TIMES_USEC, WITH_PERMISSIONS, WITH_FIFOS }
    /\ e.time_granularity = 1000

(***************************************************************************)
(* SpecBase: a caller that calls ca_encoder_set_base_fd at any time, also  *)
(* with a negative descriptor and also when a root is set already, between *)
(* its ca_encoder_step and ca_encoder_get_data calls.                      *)
(***************************************************************************)
\* ca_encoder_set_base_fd(e, fd): fd is -1, the descriptor of the root set
\* before, or a descriptor the caller opens for the call (in the place of
\* its standard input when fd is 0) and gives up again when the call fails
SetBaseFdAny ==
    /\ Usable
    /\ \E fd \in RootFds \cup {-1}, ino \in Roots :
         /\ (fd \in DOMAIN fdt /\ fdt[fd].ino # 0) => fd = base.fd
         /\ \E opened \in {IF fd >= 0 /\ fd # base.fd THEN kopen(fdt, fd, ino)
                           ELSE fdt} :
            \E res \in {ca_encoder_set_base_fd(e, fd, opened)} :
              /\ e' = res.e
              /\ call' = [op |-> "set_base_fd", r |-> res.r, fd |-> fd]
              /\ fdt' = IF res.r < 0 THEN fdt ELSE opened
              /\ base' = IF res.r < 0 THEN base ELSE [fd |-> fd, ino |-> ino]
    /\ UNCHANGED << life, stepped, got, out, handed, nsetflags, nerrors >>
    /\ UNCHANGED walkvars
    /\ UNCHANGED flagvars

NextBase ==
    \/ SetBaseFdAny
    \/ Step
    \/ GetData

SpecBase == Init /\ [][NextBase]_vars

C17_FinishedIsFinal ==
    /\ []((call.op = "step" /\ call.r = CA_ENCODER_FINISHED) => e.state = CA_ENCODER_EOF)
    /\ [](e.state = CA_ENCODER_EOF => (e.node_idx = 0 /\ e.n_nodes = 1))
    /\ [][ (e.state = CA_ENCODER_EOF /\ call'.op = "step")
             => (call'.r = CA_ENCODER_FINISHED /\ e' = e /\ fdt' = fdt) ]_vars
    /\ [][ (e.state = CA_ENCODER_EOF /\ call'.op = "get_data")
             => (call'.r <= 0 /\ handed' = handed /\ e' = e) ]_vars
    /\ [][ (e.state = CA_ENCODER_EOF /\ life' = "alive")
             => /\ e'.state = CA_ENCODER_EOF
                /\ e'.archive_offset = e.archive_offset
                /\ e'.payload_offset = e.payload_offset
                /\ e'.node_idx = e.node_idx
                /\ e'.n_nodes = e.n_nodes ]_vars

\* a walk that handed back chunks has finished (only a step that returns
\* FINISHED enters EOF), and a get_data call made after that has been refused
C17_Witness ==
    /\ call = [op |-> "get_data", r |-> 0 - ENOTTY]
    /\ e.state = CA_ENCODER_EOF
    /\ e.n_nodes = 1
    /\ handed > 0
    /\ e.archive_offset = handed

\* C18: a ca_encoder_get_data call that returns an error leaves the buffer
\* empty and step_size 0 and hands back nothing, and the step after it
\* advances neither archive_offset nor payload_offset.
C18_NoPartialChunk ==
    /\ [][ (call'.op = "get_data" /\ call'.r < 0 /\ life' = "alive")
             => (e'.buffer = <<>> /\ e'.step_size = 0 /\ handed' = handed) ]_vars
    /\ [][ (call.op = "get_data" /\ call.r < 0 /\ call'.op = "step" /\ life' = "alive")
             => /\ e'.archive_offset = e.archive_offset
                /\ e'.payload_offset <= e.payload_offset ]_vars

\* a read() of the block device has failed after a first chunk was consumed
C18_Witness ==
    /\ call = [op |-> "get_data", r |-> 0 - EIO]
    /\ base.ino = 16
    /\ e.payload_offset > 0
    /\ e.buffer = <<>>
    /\ e.step_size = 0

\* a step from this state gets to ca_encoder_open_child: the current
\* directory is listed and has a next entry, and no child is to be entered
StepOpensChild(enc) ==
    /\ has_current_node(enc)
    /\ S_ISDIR(ca_encoder_current_node(enc).stat.st_mode)
    /\ LET n == ca_encoder_current_node(enc)
       IN  \/ enc.state = CA_ENCODER_HELLO /\ n.dirent_idx < n.n_dirents
           \/ /\ \/ enc.state = CA_ENCODER_POST_CHILD
                 \/ /\ enc.state = CA_ENCODER_ENTRY
                    /\ has_current_child_node(enc)
                    /\ TypeBits(ChildStat(enc).st_mode) \notin {S_IFDIR, S_IFREG}
              /\ n.dirents # <<>>
              /\ n.dirent_idx + 1 < n.n_dirents

\* C20: n_nodes never exceeds NODES_MAX (and nodes[] holds n_nodes slots);
\* a step that gets to open a child while the stack up to the current node
\* fills all NODES_MAX slots fails with E2BIG and adds no slot.
C20_StackBounded ==
    /\ [](e.n_nodes <= NODES_MAX /\ Len(e.nodes) = e.n_nodes)
    /\ [][ (call'.op = "step" /\ StepOpensChild(e) /\ e.node_idx + 1 = NODES_MAX)
             => (call'.r = 0 - E2BIG /\ e'.n_nodes = NODES_MAX
                   /\ e'.node_idx = e.node_idx) ]_vars

\* a step in the deepest directory the stack can hold has been refused
C20_Witness ==
    /\ call = [op |-> "step", r |-> 0 - E2BIG]
    /\ e.n_nodes = NODES_MAX
    /\ e.node_idx = NODES_MAX - 1
    /\ e.state = CA_ENCODER_HELLO

(***************************************************************************)
(* SpecQuery: a caller that, between its ca_encoder_step and               *)
(* ca_encoder_get_data calls in any order, asks for the current path and   *)
(* the current mode, calls ca_encoder_get_data several times in a row, and *)
(* releases the encoder at any point.  The caller may run detached from    *)
(* its terminal, with descriptors 1 and 2 closed.                          *)
(***************************************************************************)
\* how many ca_encoder_get_data calls in a row the caller makes
MaxGets == 2

\* the caller opens a root, the tree under inode 21 included, and calls
\* ca_encoder_set_base_fd(e, fd)
SetBaseTree ==
    /\ Usable
    /\ base.fd < 0
    /\ \E fd \in RootFds, ino \in TreeRoots :
         \E opened \in {kopen(fdt, fd, ino)} :
         \E res \in {ca_encoder_set_base_fd(e, fd, opened)} :
             /\ e' = res.e
             /\ call' = [op |-> "set_base_fd", r |-> res.r]
             /\ fdt' = IF res.r < 0 THEN fdt ELSE opened
             /\ base' = IF res.r < 0 THEN base ELSE [fd |-> fd, ino |-> ino]
    /\ UNCHANGED << life, stepped, got, out, handed, nsetflags, nerrors >>
    /\ UNCHANGED walkvars
    /\ UNCHANGED flagvars

\* before the walk begins the caller closes its standard output and standard
\* error, as a process does that detaches from its terminal
CloseStd ==
    /\ Usable
    /\ ~ stepped
    /\ {1, 2} \subseteq DOMAIN fdt
    /\ fdt' = kclose(kclose(fdt, 1), 2)
    /\ call' = [op |-> "close", r |-> 0]
    /\ UNCHANGED << e, life, base, stepped, got, out, handed, nsetflags, nerrors >>
    /\ UNCHANGED walkvars
    /\ UNCHANGED flagvars

\* ca_encoder_get_data(e, &p, &size), the nth call in a row
GetDataNth ==
    /\ Usable
    /\ call.op = "get_data" => call.nth < MaxGets
    /\ \E env \in GetDataEnvs(e) :
         \E res \in {ca_encoder_get_data(e, fdt, env)} :
         LET new == ~ got \/ res.ret # out
         IN  /\ e' = res.e
             /\ fdt' = res.fdt
             /\ call' = [op |-> "get_data", r |-> res.r,
                         nth |-> IF call.op = "get_data" THEN call.nth + 1 ELSE 1]
             /\ life' = IF res.r = ABORTED THEN "crashed" ELSE life
             /\ nerrors' = IF res.r < 0 THEN nerrors + 1 ELSE nerrors
             /\ got' = (got \/ res.r = 1)
             /\ out' = IF res.r = 1 THEN res.ret ELSE out
             /\ handed' = IF res.r = 1 /\ new THEN handed + Len(res.ret) ELSE handed
    /\ UNCHANGED << base, stepped, nsetflags >>
    /\ UNCHANGED walkvars
    /\ UNCHANGED flagvars

\* ca_encoder_current_path(e, &path)
CurrentPath ==
    /\ Usable
    /\ \E res \in {ca_encoder_current_path(e)} :
         call' = [op |-> "current_path", r |-> res.r, ret |-> res.ret]
    /\ UNCHANGED << e, fdt, life, base, stepped, got, out, handed, nsetflags, nerrors >>
    /\ UNCHANGED walkvars
    /\ UNCHANGED flagvars

\* ca_encoder_current_mode(e, &mode)
CurrentMode ==
    /\ Usable
    /\ \E res \in {ca_encoder_current_mode(e)} :
         call' = [op |-> "current_mode", r |-> res.r, ret |-> res.ret]
    /\ UNCHANGED << e, fdt, life, base, stepped, got, out, handed, nsetflags, nerrors >>
    /\ UNCHANGED walkvars
    /\ UNCHANGED flagvars

\* ca_encoder_unref(e); closed is the set of descriptors the call closed
UnrefClosing ==
    /\ life = "alive"
    /\ \E res \in {ca_encoder_unref(e, fdt)} :
         /\ fdt' = res
         /\ call' = [op |-> "unref", r |-> 0, closed |-> DOMAIN fdt \ DOMAIN res]
    /\ life' = "freed"
    /\ e' = NewEncoder
    /\ stepped' = FALSE
    /\ got' = FALSE
    /\ out' = <<>>
    /\ handed' = 0
    /\ nsetflags' = 0
    /\ UNCHANGED << base, nerrors >>
    /\ UNCHANGED walkvars
    /\ UNCHANGED flagvars

NextQuery ==
    \/ SetBaseTree
    \/ CloseStd
    \/ Step
    \/ GetDataNth
    \/ CurrentPath
    \/ CurrentMode
    \/ UnrefClosing

SpecQuery == Init /\ [][NextQuery]_vars

\* C21: ca_encoder_get_data is idempotent between steps.  Once a call has
\* handed back a chunk, every further call before the next step hands back
\* the same bytes, and leaves the encoder (buffer, step_size) and the
\* descriptors (their read positions) as they are; the step that follows
\* advances archive_offset by the length of that chunk once, however many
\* calls there were, and payload_offset by the same amount (then reset to 0
\* when the step enters a new state): the payload_offset of a payload node
\* that has more to hand out is the old one plus the chunk's length.
C21_GetDataIdempotent ==
    /\ [][ (got /\ call'.op = "get_data")
             => /\ call'.r = 1
                /\ out' = out
                /\ e' = e
                /\ fdt' = fdt
                /\ handed' = handed ]_vars
    /\ []((call.op = "get_data" /\ call.r = 1)
            => (e.buffer = out /\ e.step_size = Len(out) /\ Len(out) > 0))
    /\ [][ (got /\ call'.op = "step" /\ life' = "alive")
             => /\ e'.archive_offset = e.archive_offset + Len(out)
                /\ e'.payload_offset \in {0, e.payload_offset + Len(out)}
                /\ ( /\ call'.r = CA_ENCODER_DATA
                     /\ e'.node_idx = e.node_idx
                     /\ TypeBits(ca_encoder_current_node(e).stat.st_mode)
                          \in {S_IFREG, S_IFBLK} )
                     => e'.payload_offset = e.payload_offset + Len(out) ]_vars

\* the second chunk of the file "z/g" has been handed back for the second
\* time in a row; the file has been read up to the end of that chunk
C21_Witness ==
    /\ call = [op |-> "get_data", r |-> 1, nth |-> 2]
    /\ base.ino = 21
    /\ e.node_idx = 2
    /\ e.payload_offset = BUFFER_SIZE
    /\ out = SubSeq(SectorData, BUFFER_SIZE + 1, 2 * BUFFER_SIZE)
    /\ fdt[ca_encoder_current_node(e).fd].pos = 2 * BUFFER_SIZE
    /\ handed = e.archive_offset + Len(out)

RECURSIVE OpenedNames(_, _, _)
\* the names, joined by '/', of the entries along the active stack for which
\* a child has been opened: node i, from the root down to the current node,
\* has a current entry and the node above it is on the stack
OpenedNames(enc, i, p) ==
    IF /\ i <= enc.node_idx
       /\ i + 1 < enc.n_nodes
       /\ ca_encoder_node_current_dirent(NodeAt(enc, i)) >= 0
    THEN LET node == NodeAt(enc, i)
             name == node.dirents[ca_encoder_node_current_dirent(node) + 1].d_name
         IN  OpenedNames(enc, i + 1, (IF p = <<>> THEN name ELSE p \o << 47 >> \o name))
    ELSE p

\* C24: ca_encoder_current_path hands back the '/'-joined names of the
\* entries opened along the active stack, from the root's current entry down
\* to the current or pending child, and fails with ENOTDIR when no entry has
\* been opened: for a regular file or block device as root, and for a
\* directory root no child of which has been opened yet, as in state HELLO
\* right after the first step.
C24_CurrentPath ==
    (call.op = "current_path" /\ e.n_nodes > 0)
      => LET p == OpenedNames(e, 0, <<>>)
         IN  IF p = <<>> THEN call.r = 0 - ENOTDIR
             ELSE call.r = 0 /\ call.ret = p

\* the inode behind the current entry of the current directory
CurrentEntryIno(enc) ==
    LET n == ca_encoder_current_node(enc)
    IN  Lookup(fdt[n.fd].ino, n.dirents[ca_encoder_node_current_dirent(n) + 1].d_name)

\* C25: when a step call has returned, at most one node lies above the
\* current one (n_nodes <= node_idx + 2), and that node, if there is one, is
\* the pending child opened for the current entry (dirent_idx) of the current
\* directory; so ca_encoder_current_mode hands back the mode of the pending
\* child when there is one and the current node's mode otherwise, the
\* directory's own mode in state GOODBYE.
C25_PendingChild ==
    /\ (call.op = "step" /\ life = "alive" /\ e.n_nodes > 0)
         => /\ e.n_nodes <= e.node_idx + 2
            /\ has_current_child_node(e)
                 => /\ S_ISDIR(ca_encoder_current_node(e).stat.st_mode)
                    /\ ca_encoder_node_current_dirent(ca_encoder_current_node(e)) >= 0
                    /\ ChildStat(e) \in {StatOf(CurrentEntryIno(e)), ZeroStat}
    /\ (call.op = "current_mode" /\ e.n_nodes > 0)
         => /\ call.r = 0
            /\ call.ret = (IF has_current_child_node(e)
                           THEN ChildStat(e).st_mode
                           ELSE ca_encoder_current_node(e).stat.st_mode)
            /\ e.state = CA_ENCODER_GOODBYE
                 => call.ret = ca_encoder_current_node(e).stat.st_mode

\* the descriptors that are open and are neither the root the caller passed
\* nor a standard stream: those that ca_encoder_open_child has opened and
\* nothing has closed yet
OpenedByEncoder == { fd \in DOMAIN fdt : fd # base.fd /\ fdt[fd].ino # 0 }

\* C26: the encoder leaks no descriptor it opened: each one that is open is
\* the fd of exactly one node above the root and below n_nodes, at most
\* NODES_MAX - 1 are open at a time, and once ca_encoder_unref has run, at
\* whatever point of the walk, none is open.
C26_NoDescriptorLeak ==
    /\ life # "freed"
         => \A fd \in OpenedByEncoder :
              Cardinality({ i \in 1..(e.n_nodes - 1) : NodeAt(e, i).fd = fd }) = 1
    /\ Cardinality(OpenedByEncoder) <= NODES_MAX - 1
    /\ life = "freed" => OpenedByEncoder = {}

\* node n holds a descriptor that is open on an inode of the kind n.stat says
HoldsValidFd(n) ==
    /\ n.fd >= 0
    /\ n.fd \in DOMAIN fdt
    /\ fdt[n.fd].ino # 0
    /\ FS[fdt[n.fd].ino].st_mode = n.stat.st_mode

\* C28: once the base is set, node_idx < n_nodes; every node below the
\* current one is a directory with a valid descriptor; the current node is
\* a regular file or a directory with a valid descriptor, or at index 0 a
\* block device; and a step moves node_idx up by at most one, onto the
\* pending child, which is a regular file or a directory: a symlink,
\* device, fifo or socket child is never entered.
C28_StackWellFormed ==
    /\ []((base.fd >= 0 /\ life # "freed")
            => /\ e.node_idx < e.n_nodes
               /\ \A i \in 0..(e.node_idx - 1) :
                    S_ISDIR(NodeAt(e, i).stat.st_mode) /\ HoldsValidFd(NodeAt(e, i))
               /\ LET n == ca_encoder_current_node(e)
                  IN  /\ HoldsValidFd(n)
                      /\ \/ S_ISREG(n.stat.st_mode)
                         \/ S_ISDIR(n.stat.st_mode)
                         \/ S_ISBLK(n.stat.st_mode) /\ e.node_idx = 0)
    /\ [][ (e.n_nodes > 0 /\ e'.node_idx > e.node_idx)
             => /\ call'.op = "step"
                /\ e'.node_idx = e.node_idx + 1
                /\ has_current_child_node(e)
                /\ ca_encoder_current_node(e') = ca_encoder_current_child_node(e)
                     \/ ca_encoder_current_node(e').fd = ca_encoder_current_child_node(e).fd
                /\ TypeBits(ChildStat(e).st_mode) \in {S_IFREG, S_IFDIR} ]_vars

\* the file "z/g" has been entered: two directories below it on the stack;
\* its parent's other kinds of children do not occur here
C28_Witness ==
    /\ call.op = "step"
    /\ base.ino = 21
    /\ e.node_idx = 2
    /\ e.n_nodes = 3
    /\ S_ISREG(ca_encoder_current_node(e).stat.st_mode)
    /\ S_ISDIR(NodeAt(e, 1).stat.st_mode)
    /\ HoldsValidFd(ca_encoder_current_node(e))

(***************************************************************************)
(* The shape of a whole directory walk under SpecWalk.                     *)
(***************************************************************************)
\* the children of directory ino by name, in strcmp order
SortedChildNames(ino) ==
    LET ns == ChildNames(ino)
        k  == Cardinality(ns)
    IN  CHOOSE s \in [1..k -> ns] :
          \A i \in 1..k : \A j \in 1..k : i < j => strcmp(s[i], s[j]) < 0

RECURSIVE DataItems(_)
\* the raw payload chunks of a file's bytes
DataItems(data) ==
    IF data = <<>> THEN <<>>
    ELSE LET k == MIN(BUFFER_SIZE, Len(data))
         IN  << [kind |-> "DATA", bytes |-> SubSeq(data, 1, k)] >>
               \o DataItems(SubSeq(data, k + 1, Len(data)))

RECURSIVE TreeItems(_)
RECURSIVE ChildItems(_, _)
\* what the walk of directory ino is to hand back: HELLO, then per child its
\* ENTRY and what follows it, then GOODBYE
TreeItems(ino) ==
    << [kind |-> "HELLO"] >> \o ChildItems(ino, SortedChildNames(ino))
        \o << [kind |-> "GOODBYE"] >>

ChildItems(ino, ns) ==
    IF ns = <<>> THEN <<>>
    ELSE LET c == Lookup(ino, Head(ns))
         IN  << [kind |-> "ENTRY", name |-> Head(ns)] >>
               \o (IF S_ISREG(FS[c].st_mode) THEN DataItems(FS[c].data)
                   ELSE IF S_ISDIR(FS[c].st_mode) THEN TreeItems(c)
                   ELSE <<>>)
               \o ChildItems(ino, Tail(ns))

\* the record type at the start of a chunk
HasType(chunk, type) ==
    Len(chunk) >= SIZEOF_HEADER /\ SubSeq(chunk, 1, SIZEOF_LE64) = htole64(type)

\* chunk is the chunk that item describes
ChunkIs(chunk, item) ==
    IF item.kind = "HELLO" THEN HasType(chunk, CA_FORMAT_HELLO)
    ELSE IF item.kind = "GOODBYE" THEN HasType(chunk, CA_FORMAT_GOODBYE)
    ELSE IF item.kind = "ENTRY"
    THEN HasType(chunk, CA_FORMAT_ENTRY) /\ EntryName(chunk) = item.name
    ELSE chunk = item.bytes

\* no call of the walk so far has failed
WalkSucceeds == \A i \in 1..Len(log) : log[i].r >= 0

\* the last call of the walk was a step that returned FINISHED
WalkFinished ==
    /\ pc = "done"
    /\ Len(log) > 1
    /\ log[Len(log)] = [op |-> "step", r |-> CA_ENCODER_FINISHED, chunk |-> <<>>]

\* C22: in a successful walk of a directory root the chunks are well
\* nested: each directory gives its HELLO, then per child in order one
\* ENTRY followed by the file's payload chunks or by the whole
\* HELLO...GOODBYE sequence of the child directory, then one GOODBYE; step
\* returns FINISHED only when the whole sequence, the root's GOODBYE last,
\* has been handed back; and when a child finishes the parent goes on at
\* its next directory entry.
C22_WellNested ==
    /\ []((base.fd >= 0 /\ S_ISDIR(FS[base.ino].st_mode) /\ WalkSucceeds)
            => LET chunks == Chunks(log)
                   items  == TreeItems(base.ino)
               IN  /\ Len(chunks) <= Len(items)
                   /\ \A i \in 1..Len(chunks) : ChunkIs(chunks[i], items[i])
                   /\ WalkFinished => Len(chunks) = Len(items)
                   /\ (pc = "done" /\ Len(log) > 1) => WalkFinished)
    /\ [][ (pc = "step" /\ e'.node_idx < e.node_idx /\ WalkSucceeds')
             => /\ e'.node_idx = e.node_idx - 1
                /\ LET parent  == NodeAt(e, e.node_idx - 1)
                       parent2 == ca_encoder_current_node(e')
                   IN  /\ parent2.dirent_idx = parent.dirent_idx + 1
                       /\ parent2.dirents = parent.dirents
                       /\ e'.state = (IF parent2.dirent_idx < parent2.n_dirents
                                      THEN CA_ENCODER_ENTRY ELSE CA_ENCODER_GOODBYE) ]_vars

\* the tree "e", "z/g" has been walked to the end: ten chunks, the three
\* payload chunks of "g" between its ENTRY and the GOODBYE of "z"
C22_Witness ==
    /\ WalkFinished
    /\ WalkSucceeds
    /\ base.ino = 21
    /\ Len(Chunks(log)) = 10
    /\ HasType(Chunks(log)[9], CA_FORMAT_GOODBYE)
    /\ HasType(Chunks(log)[10], CA_FORMAT_GOODBYE)
    /\ Len(Chunks(log)[8]) = 512 - 2 * BUFFER_SIZE

\* chunk is a framing chunk: a HELLO, ENTRY or GOODBYE record
IsFraming(chunk) ==
    \/ HasType(chunk, CA_FORMAT_HELLO)
    \/ HasType(chunk, CA_FORMAT_ENTRY)
    \/ HasType(chunk, CA_FORMAT_GOODBYE)

\* the size field of the CaFormatEntry header of an ENTRY chunk
EntrySizeField(chunk) == read_le64(chunk, SIZEOF_LE64)

\* the ENTRY chunk carries a PAYLOAD header behind its CaFormatEntry
HasPayloadHeader(chunk) ==
    /\ HasType(chunk, CA_FORMAT_ENTRY)
    /\ Len(chunk) = EntrySizeField(chunk) + SIZEOF_HEADER
    /\ SubSeq(chunk, EntrySizeField(chunk) + 1, EntrySizeField(chunk) + SIZEOF_LE64)
         = htole64(CA_FORMAT_PAYLOAD)

\* the size field of that PAYLOAD header
PayloadSizeField(chunk) == read_le64(chunk, EntrySizeField(chunk) + SIZEOF_LE64)

\* the index of the first framing chunk after chunk i, or 0 when none yet
NextFraming(chunks, i) ==
    LET later == { j \in (i + 1)..Len(chunks) : IsFraming(chunks[j]) }
    IN  IF later = {} THEN 0 ELSE CHOOSE j \in later : \A k \in later : j <= k

\* C23: the size field of the PAYLOAD header behind the ENTRY of a
\* regular-file child is 16 plus the number of raw payload bytes handed
\* back for that child between this ENTRY chunk and the parent's next
\* framing chunk; for an empty file it is 16 and no payload chunk follows.
C23_PayloadHeaderSize ==
    LET chunks == Chunks(log)
    IN  \A i \in 1..Len(chunks) :
          (HasPayloadHeader(chunks[i]) /\ NextFraming(chunks, i) # 0)
            => PayloadSizeField(chunks[i])
                 = SIZEOF_HEADER
                     + Len(Flatten(SubSeq(chunks, i + 1, NextFraming(chunks, i) - 1)))

\* "z/g" of 512 bytes came in three payload chunks before the GOODBYE of
\* "z", and the empty file "e" in none before the ENTRY of "z"
C23_Witness ==
    LET chunks == Chunks(log)
    IN  /\ base.ino = 21
        /\ Len(chunks) >= 9
        /\ HasPayloadHeader(chunks[2])
        /\ PayloadSizeField(chunks[2]) = SIZEOF_HEADER
        /\ NextFraming(chunks, 2) = 3
        /\ HasPayloadHeader(chunks[5])
        /\ PayloadSizeField(chunks[5]) = SIZEOF_HEADER + 512
        /\ NextFraming(chunks, 5) = 9

(***************************************************************************)
(* SpecLive: one consumer that keeps calling.  After ca_encoder_set_base_fd*)
(* it calls ca_encoder_step and ca_encoder_get_data in turn until a call   *)
(* fails or step returns FINISHED; no read, open or listing fails.  The    *)
(* loop never stops of its own accord, hence the weak fairness of each of  *)
(* its calls.                                                              *)
(***************************************************************************)
\* the consumer sets the flags, or leaves the defaults, and the root
LiveSetup ==
    /\ pc = "setup"
    /\ \E flags \in FlagChoices \cup {{"default"}}, fd \in RootFds, ino \in TreeRoots :
         \E opened \in {kopen(fdt, fd, ino)} :
         \E r1 \in {ca_encoder_set_base_fd(WithFlags(e, flags), fd, opened)} :
             /\ e' = r1.e
             /\ fdt' = opened
             /\ base' = [fd |-> fd, ino |-> ino]
             /\ call' = [op |-> "set_base_fd", r |-> r1.r]
             /\ pc' = IF r1.r < 0 THEN "done" ELSE "step"
    /\ UNCHANGED << life, stepped, got, out, handed, nsetflags, nerrors >>
    /\ UNCHANGED << e2, fdt2, log, log2, names, mixed, req >>

\* ca_encoder_step
LiveStep ==
    /\ pc = "step"
    /\ \E o1 \in WalkOrders(e) :
         \E r1 \in {ca_encoder_step(e, fdt, QuietEnv(o1, "trap"))} :
             /\ e' = r1.e
             /\ fdt' = r1.fdt
             /\ call' = [op |-> "step", r |-> r1.r]
             /\ pc' = IF r1.r \in {CA_ENCODER_NEXT_FILE, CA_ENCODER_DATA} THEN "data" ELSE "done"
    /\ UNCHANGED << life, base, stepped, got, out, handed, nsetflags, nerrors >>
    /\ UNCHANGED << e2, fdt2, log, log2, names, mixed, req >>

\* ca_encoder_get_data
LiveGetData ==
    /\ pc = "data"
    /\ \E env \in GetDataEnvs(e) :
         \E r1 \in {ca_encoder_get_data(e, fdt, [env EXCEPT !.fail = "none"])} :
             /\ e' = r1.e
             /\ fdt' = r1.fdt
             /\ call' = [op |-> "get_data", r |-> r1.r]
             /\ out' = r1.ret
             /\ pc' = IF r1.r >= 0 THEN "step" ELSE "done"
    /\ UNCHANGED << life, base, stepped, got, handed, nsetflags, nerrors >>
    /\ UNCHANGED << e2, fdt2, log, log2, names, mixed, req >>

NextLive == LiveSetup \/ LiveStep \/ LiveGetData

SpecLive ==
    /\ InitWalk
    /\ [][NextLive]_vars
    /\ WF_vars(LiveSetup)
    /\ WF_vars(LiveStep)
    /\ WF_vars(LiveGetData)

\* step has returned FINISHED
LiveFinished == pc = "done" /\ call = [op |-> "step", r |-> CA_ENCODER_FINISHED]

\* a call has returned an error
LiveError == pc = "done" /\ call.r < 0 /\ call.r # ABORTED

\* C27: a consumer that alternates ca_encoder_step and ca_encoder_get_data
\* on a finite tree eventually gets FINISHED from step, unless a call
\* returns an error.
C27_WalkTerminates == <>(LiveFinished \/ LiveError)

====
